---- MODULE Spec2Model ----
(***************************************************************************)
(* Model of the resource-reclamation code of the repository:               *)
(*   - the cost-optimizer Lambda (challenges/11-aws-infrastructure/        *)
(*     implementation/cost-optimizer.py): lambda_handler and the find_* /  *)
(*     delete_* / release_* / archive_* functions it calls;                *)
(*   - ResourceCleanup (challenges/14-finops-cost-optimization/            *)
(*     implementation/resource-cleanup.py): run_cleanup and its three      *)
(*     cleanup_* methods;                                                  *)
(* of its analysis functions, each applied once to drawn arguments         *)
(* (AnalysisSpec): detect_cost_anomalies and the untagged percentage of    *)
(* aws-cost-analyzer.py, the budget percentages of budget-alert-lambda.py, *)
(* the recommendations of rightsizing-recommendations.py and               *)
(* analyze_ec2_utilization of cost-optimizer.py;                           *)
(* and of generate_report of flow-log-analyzer.py (FlowSpec).              *)
(*                                                                         *)
(* Units.  Times are hours on one time line, so timedelta.days is          *)
(* (difference) \div 24.  Money is in cents: the code's amounts            *)
(* (Size * 0.08, VolumeSize * 0.05, 3.60) all have at most two decimals,   *)
(* so round(x, 2) keeps them and Size * 0.08 dollars is Size * 8 cents.    *)
(*                                                                         *)
(* A resource id is the position of the resource in the listing that       *)
(* returned it.  Every external call that changes the account is appended  *)
(* to the variable calls, with its outcome.                                *)
(***************************************************************************)
EXTENDS Integers, Sequences, FiniteSets

\* ---------------------------------------------------------------- bounds

\* The account holds at most this many resources (volumes, addresses and
\* snapshots together) in one run.
MaxResources == 3

\* ------------------------------------------------------ program constants

MIN_DAYS_BEFORE_DELETE == 7
VolumeCentsPerGB == 8
EipCentsPerMonth == 360
SnapshotCentsPerGB == 5
SnapshotDaysOld == 90
HoursPerDay == 24

\* ----------------------------------------------------------------- inputs

\* Readings of the wall clock.
NowTimes == {240, 264}
\* Volume creation times: with the clock at 240 the ages are 10 days,
\* 6 days and 5 days; with the clock at 264 they are 11 days, 7 days exactly
\* and 6 days.
CreateTimes == {0, 96, 120}
Sizes == {1, 100}
\* Snapshot start times: 100 days and exactly 90 days before hour 240.
StartTimes == {-2160, -1920}

\* Successive readings of datetime.now(): the clock does not run backwards.
Monotone(readings) ==
    \A a, b \in DOMAIN readings : a < b => readings[a] <= readings[b]

\* The volumes of the account: the one that turns 7 days old while the clock
\* moves has 1 GB, the others 100 GB.
VolumeInputs ==
    {v \in [Size : Sizes, CreateTime : CreateTimes] :
        v.Size = 1 <=> v.CreateTime = 96}
AddressInputs == [Associated : BOOLEAN, HasAllocationId : BOOLEAN]
SnapshotInputs == [VolumeSize : Sizes, StartTime : StartTimes]

\* Outcomes of an external mutating call: it returns, or it raises.
CallErrors == {"NotFound", "Error"}
DeleteOutcomes == {"ok"} \cup CallErrors
SnapshotOutcomes == {"ok", "Error"}

SeqsUpTo(S, n) == UNION {[1..k -> S] : k \in 0..n}

\* A describe_* answer: the resources, each with its id.
Listing(attrs) == [k \in 1..Len(attrs) |-> [Id |-> k, Attrs |-> attrs[k]]]

RECURSIVE SumSeq(_)
SumSeq(s) == IF s = <<>> THEN 0 ELSE Head(s) + SumSeq(Tail(s))

RECURSIVE FilterSeq(_, _)
\* The elements of s whose index is in the set keep, in order.
FilterSeq(s, keep) ==
    IF s = <<>> THEN <<>>
    ELSE LET n == Len(s)
             front == FilterSeq(SubSeq(s, 1, n - 1), keep)
         IN IF n \in keep THEN Append(front, s[n]) ELSE front

Range(s) == {s[k] : k \in 1..Len(s)}

VARIABLES
    prog,                \* "lambda": lambda_handler; "cleanup": run_cleanup
    dry_run,             \* DRY_RUN of the Lambda, self.dry_run of ResourceCleanup
    now,                 \* the readings of datetime.now() so far, in order
    pc,                  \* position of the run
    i,                   \* index of the candidate the current loop is at
    volumes,             \* what describe_volumes answered
    addresses,           \* what describe_addresses answered
    snapshots,           \* what describe_snapshots answered
    unattached_volumes,  \* Lambda: the list find_unattached_volumes returned
    volume_results,      \* Lambda: results of delete_unattached_volumes
    orphaned_eips,       \* Lambda: find_orphaned_eips; cleanup: unassociated
    eip_results,         \* Lambda: results of release_orphaned_eips
    old_snapshots,       \* the snapshots selected as old
    snapshot_results,    \* Lambda: results of archive_old_snapshots
    cleanup_report,      \* ResourceCleanup.cleanup_report
    response,            \* Lambda: what lambda_handler returned
    calls,               \* the mutating external calls issued so far
    list_errors,         \* the describe_* calls of the run that raised
    call,                \* analysis: the function called last, with its arguments
    result,              \* analysis: what that call returned
    traffic,             \* flow logs: what each source address sent
    detector,            \* flow logs: the detector generate_report is at
    step,                \* flow logs: position inside that detector
    status,              \* flow logs: status of the query last started
    findings,            \* flow logs: what each detector returned
    flow_report          \* flow logs: the report of generate_report

runVars == <<prog, dry_run, now, pc, i, volumes, addresses, snapshots,
             unattached_volumes, volume_results, orphaned_eips, eip_results,
             old_snapshots, snapshot_results, cleanup_report, response, calls,
             list_errors>>
analysisVars == <<call, result>>
flowVars == <<traffic, detector, step, status, findings, flow_report>>

vars == <<runVars, analysisVars, flowVars>>

Listed == Len(volumes) + Len(addresses) + Len(snapshots)
Room == MaxResources - Listed

Call(op, id, res) == [op |-> op, id |-> id, res |-> res]

\* ------------------------------------------------ cost-optimizer.py (Lambda)

\* volume_age = (datetime.now(tz) - volume['CreateTime']).days
VolumeAge(volume, t) == (t - volume.Attrs.CreateTime) \div HoursPerDay

\* Eligible with the comparison made strict: a volume of age exactly
\* MIN_DAYS_BEFORE_DELETE is left out.
Eligible_Strict(volume, t) == VolumeAge(volume, t) > MIN_DAYS_BEFORE_DELETE
\* if volume_age >= MIN_DAYS_BEFORE_DELETE
Eligible(volume, t) == VolumeAge(volume, t) >= MIN_DAYS_BEFORE_DELETE

\* monthly_cost = volume['Size'] * 0.08, rounded to cents
MonthlyCost(volume) == volume.Attrs.Size * VolumeCentsPerGB

VolumeInfo(volume, t) ==
    [VolumeId |-> volume.Id,
     Size |-> volume.Attrs.Size,
     AgeDays |-> VolumeAge(volume, t),
     MonthlyCost |-> MonthlyCost(volume)]

\* The loop of find_unattached_volumes over the listing (lines 56-74):
\* readings[k] is what datetime.now() reads for volume k (line 57).
find_unattached_volumes(vols, readings) ==
    LET keep == {k \in 1..Len(vols) : Eligible(vols[k], readings[k])}
        infos == [k \in 1..Len(vols) |-> VolumeInfo(vols[k], readings[k])]
    IN FilterSeq(infos, keep)

NoResponse == [statusCode |-> 0]
NoCall == [fn |-> "none"]
NoFindings == [d \in 1..3 |-> <<>>]
NoReport == [port_scans |-> -1, data_exfiltration |-> -1, total_denials |-> -1]

\* No analysis function is being called.
AnalysisIdle ==
    /\ call = NoCall
    /\ result = <<>>

\* The flow-log analyzer is not running.
FlowIdle ==
    /\ traffic = <<>>
    /\ detector = 1
    /\ step = "idle"
    /\ status = "none"
    /\ findings = NoFindings
    /\ flow_report = NoReport

EmptyVolumeResults == [deleted |-> <<>>, failed |-> <<>>, total_savings |-> 0]
EmptyEipResults == [released |-> <<>>, failed |-> <<>>, total_savings |-> 0]
EmptySnapshotResults == [tagged |-> <<>>, failed |-> <<>>]
EmptyCleanupReport ==
    [snapshots_deleted |-> <<>>, volumes_deleted |-> <<>>,
     eips_released |-> <<>>, total_savings |-> 0]

Init ==
    /\ prog \in {"lambda", "cleanup"}
    /\ dry_run \in BOOLEAN
    /\ now = <<>>
    /\ pc = IF prog = "lambda" THEN "find_volumes" ELSE "rc_snapshots"
    /\ i = 1
    /\ volumes = <<>>
    /\ addresses = <<>>
    /\ snapshots = <<>>
    /\ unattached_volumes = <<>>
    /\ volume_results = EmptyVolumeResults
    /\ orphaned_eips = <<>>
    /\ eip_results = EmptyEipResults
    /\ old_snapshots = <<>>
    /\ snapshot_results = EmptySnapshotResults
    /\ cleanup_report = EmptyCleanupReport
    /\ response = NoResponse
    /\ calls = <<>>
    /\ list_errors = {}
    /\ AnalysisIdle
    /\ FlowIdle

\* find_unattached_volumes(): describe_volumes answers, or raises and the
\* except clause returns the empty list.
FindUnattachedVolumes ==
    /\ pc = "find_volumes"
    /\ \E listed \in BOOLEAN, attrs \in SeqsUpTo(VolumeInputs, Room) :
        /\ volumes' = IF listed THEN Listing(attrs) ELSE <<>>
        /\ list_errors' = IF listed THEN list_errors
                        ELSE list_errors \cup {"describe_volumes"}
        /\ \E readings \in [1..Len(volumes') -> NowTimes] :
            /\ Monotone(now \o readings)
            /\ now' = now \o readings
            /\ unattached_volumes' =
                 find_unattached_volumes(volumes', readings)
    /\ pc' = "delete_volumes"
    /\ i' = 1
    /\ UNCHANGED <<prog, dry_run, addresses, snapshots, volume_results,
                   orphaned_eips, eip_results, old_snapshots,
                   snapshot_results, cleanup_report, response, calls>>

\* The dry-run pass with the DRY_RUN test lost: the calls are issued.
DryRunDeleteVolume_Calling(results, volume) ==
    [results |-> [results EXCEPT
                    !.deleted = Append(@, volume.VolumeId),
                    !.total_savings = @ + volume.MonthlyCost],
     issued |-> <<Call("create_snapshot", volume.VolumeId, "ok"),
                  Call("delete_volume", volume.VolumeId, "ok")>>]
\* The dry-run pass without the addition to total_savings.
DryRunDeleteVolume_NoSavings(results, volume) ==
    [results |-> [results EXCEPT !.deleted = Append(@, volume.VolumeId)],
     issued |-> <<>>]
\* One pass of the loop of delete_unattached_volumes in dry-run mode
\* (lines 95-98): the result and the calls issued.
DryRunDeleteVolume(results, volume) ==
    [results |-> [results EXCEPT
                    !.deleted = Append(@, volume.VolumeId),
                    !.total_savings = @ + volume.MonthlyCost],
     issued |-> <<>>]

\* The live pass with create_snapshot in a try of its own: its failure is
\* swallowed and delete_volume is called all the same.
LiveDeleteVolume_Unguarded(results, volume, snap, del) ==
    LET id == volume.VolumeId
        snapCall == Call("create_snapshot", id, snap)
        delCall == Call("delete_volume", id, del)
    IN IF del # "ok"
       THEN [results |-> [results EXCEPT
                !.failed = Append(@, [VolumeId |-> id, Error |-> del])],
             issued |-> <<snapCall, delCall>>]
       ELSE [results |-> [results EXCEPT
                !.deleted = Append(@, id),
                !.total_savings = @ + volume.MonthlyCost],
             issued |-> <<snapCall, delCall>>]
\* One pass of the loop in live mode (lines 100-129): create_snapshot, then
\* delete_volume, inside one try; the first call that raises ends the pass
\* in the except clause.
LiveDeleteVolume(results, volume, snap, del) ==
    LET id == volume.VolumeId
        snapCall == Call("create_snapshot", id, snap)
        delCall == Call("delete_volume", id, del)
    IN IF snap # "ok"
       THEN [results |-> [results EXCEPT
                !.failed = Append(@, [VolumeId |-> id, Error |-> snap])],
             issued |-> <<snapCall>>]
       ELSE IF del # "ok"
       THEN [results |-> [results EXCEPT
                !.failed = Append(@, [VolumeId |-> id, Error |-> del])],
             issued |-> <<snapCall, delCall>>]
       ELSE [results |-> [results EXCEPT
                !.deleted = Append(@, id),
                !.total_savings = @ + volume.MonthlyCost],
             issued |-> <<snapCall, delCall>>]

\* delete_unattached_volumes: one pass of `for volume in volumes`.
DeleteUnattachedVolume ==
    /\ pc = "delete_volumes"
    /\ i <= Len(unattached_volumes)
    /\ \E snap \in SnapshotOutcomes, del \in DeleteOutcomes :
        LET volume == unattached_volumes[i]
            r == IF dry_run
                 THEN DryRunDeleteVolume(volume_results, volume)
                 ELSE LiveDeleteVolume(volume_results, volume, snap, del)
        IN /\ volume_results' = r.results
           /\ calls' = calls \o r.issued
    /\ i' = i + 1
    /\ UNCHANGED <<prog, dry_run, now, pc, volumes, addresses, snapshots,
                   unattached_volumes, orphaned_eips, eip_results,
                   old_snapshots, snapshot_results, cleanup_report, response>>
    /\ UNCHANGED list_errors

\* The loop of find_orphaned_eips.  An address without AssociationId is
\* orphaned; reading address['AllocationId'] of one that has none raises
\* KeyError, and the except clause returns what was collected before it.
find_orphaned_eips(addrs) ==
    LET bad == {k \in 1..Len(addrs) :
                    /\ ~addrs[k].Attrs.Associated
                    /\ ~addrs[k].Attrs.HasAllocationId}
        seen == {k \in 1..Len(addrs) : \A b \in bad : k < b}
        keep == {k \in seen : ~addrs[k].Attrs.Associated}
        kept == FilterSeq(addrs, keep)
    IN [k \in 1..Len(kept) |->
            [PublicIp |-> kept[k].Id, AllocationId |-> kept[k].Id,
             MonthlyCost |-> EipCentsPerMonth]]

\* find_orphaned_eips(), called when delete_unattached_volumes has returned.
FindOrphanedEips ==
    /\ pc = "delete_volumes"
    /\ i > Len(unattached_volumes)
    /\ \E listed \in BOOLEAN, attrs \in SeqsUpTo(AddressInputs, Room) :
        /\ addresses' = IF listed THEN Listing(attrs) ELSE <<>>
        /\ list_errors' = IF listed THEN list_errors
                        ELSE list_errors \cup {"describe_addresses"}
        /\ orphaned_eips' = find_orphaned_eips(addresses')
    /\ pc' = "release_eips"
    /\ i' = 1
    /\ UNCHANGED <<prog, dry_run, now, volumes, snapshots, unattached_volumes,
                   volume_results, eip_results, old_snapshots,
                   snapshot_results, cleanup_report, response, calls>>

\* The pass with the append to 'released' after the try, on every path.
ReleaseEip_AppendAfterTry(results, eip, dry, rel) ==
    IF dry
    THEN [results |-> [results EXCEPT
             !.released = Append(@, eip.PublicIp),
             !.total_savings = @ + eip.MonthlyCost],
          issued |-> <<>>]
    ELSE IF rel = "ok"
    THEN [results |-> [results EXCEPT
             !.released = Append(@, eip.PublicIp),
             !.total_savings = @ + eip.MonthlyCost],
          issued |-> <<Call("release_address", eip.AllocationId, rel)>>]
    ELSE [results |-> [results EXCEPT
             !.released = Append(@, eip.PublicIp),
             !.failed = Append(@, [PublicIp |-> eip.PublicIp, Error |-> rel])],
          issued |-> <<Call("release_address", eip.AllocationId, rel)>>]
\* One pass of the loop of release_orphaned_eips (lines 178-198).
ReleaseEip(results, eip, dry, rel) ==
    IF dry
    THEN [results |-> [results EXCEPT
             !.released = Append(@, eip.PublicIp),
             !.total_savings = @ + eip.MonthlyCost],
          issued |-> <<>>]
    ELSE IF rel = "ok"
    THEN [results |-> [results EXCEPT
             !.released = Append(@, eip.PublicIp),
             !.total_savings = @ + eip.MonthlyCost],
          issued |-> <<Call("release_address", eip.AllocationId, rel)>>]
    ELSE [results |-> [results EXCEPT
             !.failed = Append(@, [PublicIp |-> eip.PublicIp, Error |-> rel])],
          issued |-> <<Call("release_address", eip.AllocationId, rel)>>]

\* release_orphaned_eips: one pass of `for eip in eips`.
ReleaseOrphanedEip ==
    /\ pc = "release_eips"
    /\ i <= Len(orphaned_eips)
    /\ \E rel \in DeleteOutcomes :
        LET r == ReleaseEip(eip_results, orphaned_eips[i], dry_run, rel)
        IN /\ eip_results' = r.results
           /\ calls' = calls \o r.issued
    /\ i' = i + 1
    /\ UNCHANGED <<prog, dry_run, now, pc, volumes, addresses, snapshots,
                   unattached_volumes, volume_results, orphaned_eips,
                   old_snapshots, snapshot_results, cleanup_report, response>>
    /\ UNCHANGED list_errors

\* cutoff_date = now - timedelta(days=days_old); StartTime < cutoff_date
IsOldSnapshot(snapshot, t) ==
    snapshot.Attrs.StartTime < t - SnapshotDaysOld * HoursPerDay

\* The snapshots of the listing older than the cutoff computed from the
\* reading t (lines 212, 218).
OldSnapshots(snaps, t) ==
    FilterSeq(snaps, {k \in 1..Len(snaps) : IsOldSnapshot(snaps[k], t)})

\* The loop of find_old_snapshots(days_old=90): t is the reading the cutoff
\* is computed from (line 212; the inner datetime.now() of that line only
\* supplies the time zone), readings[k] the one AgeDays of the k-th old
\* snapshot is computed from (line 224).
find_old_snapshots(snaps, t, readings) ==
    LET kept == OldSnapshots(snaps, t)
    IN [k \in 1..Len(kept) |->
            [SnapshotId |-> kept[k].Id,
             VolumeSize |-> kept[k].Attrs.VolumeSize,
             AgeDays |-> (readings[k] - kept[k].Attrs.StartTime)
                            \div HoursPerDay,
             MonthlyCost |-> kept[k].Attrs.VolumeSize * SnapshotCentsPerGB]]

\* find_old_snapshots(days_old=90), called when release_orphaned_eips has
\* returned.
FindOldSnapshots ==
    /\ pc = "release_eips"
    /\ i > Len(orphaned_eips)
    /\ \E listed \in BOOLEAN, attrs \in SeqsUpTo(SnapshotInputs, Room) :
        /\ snapshots' = IF listed THEN Listing(attrs) ELSE <<>>
        /\ list_errors' = IF listed THEN list_errors
                        ELSE list_errors \cup {"describe_snapshots"}
        /\ \E t \in NowTimes :
           \E readings \in
                 [1..Len(OldSnapshots(snapshots', t)) -> NowTimes] :
            /\ Monotone(now \o <<t>> \o readings)
            /\ now' = now \o <<t>> \o readings
            /\ old_snapshots' = find_old_snapshots(snapshots', t, readings)
    /\ pc' = "archive_snapshots"
    /\ i' = 1
    /\ UNCHANGED <<prog, dry_run, volumes, addresses, unattached_volumes,
                   volume_results, orphaned_eips, eip_results,
                   snapshot_results, cleanup_report, response, calls>>

\* One pass of the loop of archive_old_snapshots (lines 250-270): create_tags
\* is called whatever DRY_RUN is.
ArchiveSnapshot(results, snapshot, dry, tag) ==
    LET id == snapshot.SnapshotId
    IN IF tag = "ok"
       THEN [results |-> [results EXCEPT !.tagged = Append(@, id)],
             issued |-> <<Call("create_tags", id, tag)>>]
       ELSE [results |-> [results EXCEPT
                !.failed = Append(@, [SnapshotId |-> id, Error |-> tag])],
             issued |-> <<Call("create_tags", id, tag)>>]

\* archive_old_snapshots: one pass of `for snapshot in snapshots`.
ArchiveOldSnapshot ==
    /\ pc = "archive_snapshots"
    /\ i <= Len(old_snapshots)
    /\ \E tag \in DeleteOutcomes :
        LET r == ArchiveSnapshot(snapshot_results, old_snapshots[i], dry_run, tag)
        IN /\ snapshot_results' = r.results
           /\ calls' = calls \o r.issued
    /\ i' = i + 1
    /\ UNCHANGED <<prog, dry_run, now, pc, volumes, addresses, snapshots,
                   unattached_volumes, volume_results, orphaned_eips,
                   eip_results, old_snapshots, cleanup_report, response>>
    /\ UNCHANGED list_errors

\* The value lambda_handler returns (lines 510-521).
HandlerResponse(vr, er, sr) ==
    [statusCode |-> 200,
     message |-> "Cost optimization completed successfully",
     total_savings |-> vr.total_savings + er.total_savings,
     volumes_deleted |-> Len(vr.deleted),
     eips_released |-> Len(er.released),
     snapshots_tagged |-> Len(sr.tagged)]

\* lambda_handler, from the report to its return.
LambdaReturn ==
    /\ pc = "archive_snapshots"
    /\ i > Len(old_snapshots)
    /\ response' = HandlerResponse(volume_results, eip_results, snapshot_results)
    /\ pc' = "done"
    /\ UNCHANGED <<prog, dry_run, now, i, volumes, addresses, snapshots,
                   unattached_volumes, volume_results, orphaned_eips,
                   eip_results, old_snapshots, snapshot_results,
                   cleanup_report, calls>>
    /\ UNCHANGED list_errors

LambdaNext ==
    \/ FindUnattachedVolumes
    \/ DeleteUnattachedVolume
    \/ FindOrphanedEips
    \/ ReleaseOrphanedEip
    \/ FindOldSnapshots
    \/ ArchiveOldSnapshot
    \/ LambdaReturn

\* -------------------------------------- resource-cleanup.py (ResourceCleanup)

\* cleanup_old_snapshots, up to its loop (lines 30-33).  With no snapshot in
\* the account snapshots[0] raises IndexError, which nothing catches:
\* run_cleanup ends there.  Otherwise datetime.now() is read once, for the
\* cutoff (line 31).
CleanupOldSnapshotsList ==
    /\ pc = "rc_snapshots"
    /\ \E listed \in BOOLEAN, attrs \in SeqsUpTo(SnapshotInputs, Room) :
        /\ snapshots' = IF listed THEN Listing(attrs) ELSE <<>>
        /\ list_errors' = IF listed THEN list_errors
                        ELSE list_errors \cup {"describe_snapshots"}
        /\ IF ~listed \/ attrs = <<>>
           THEN /\ pc' = "crashed"
                /\ old_snapshots' = <<>>
                /\ now' = now
           ELSE /\ pc' = "rc_delete_snapshots"
                /\ \E t \in NowTimes :
                    /\ Monotone(now \o <<t>>)
                    /\ now' = now \o <<t>>
                    /\ old_snapshots' = OldSnapshots(snapshots', t)
    /\ i' = 1
    /\ UNCHANGED <<prog, dry_run, volumes, addresses, unattached_volumes,
                   volume_results, orphaned_eips, eip_results,
                   snapshot_results, cleanup_report, response, calls>>

\* One pass of the loop of cleanup_old_snapshots (lines 35-52): the entry is
\* appended to snapshots_deleted after the if, on every path.
CleanupSnapshot(report, snapshot, dry, del) ==
    [report |-> [report EXCEPT
        !.snapshots_deleted =
            Append(@, [id |-> snapshot.Id,
                       size_gb |-> snapshot.Attrs.VolumeSize,
                       savings_per_month |->
                           snapshot.Attrs.VolumeSize * SnapshotCentsPerGB])],
     issued |-> IF ~dry THEN <<Call("delete_snapshot", snapshot.Id, del)>>
                ELSE <<>>]

CleanupOldSnapshot ==
    /\ pc = "rc_delete_snapshots"
    /\ i <= Len(old_snapshots)
    /\ \E del \in DeleteOutcomes :
        LET r == CleanupSnapshot(cleanup_report, old_snapshots[i], dry_run, del)
        IN /\ cleanup_report' = r.report
           /\ calls' = calls \o r.issued
    /\ i' = i + 1
    /\ UNCHANGED <<prog, dry_run, now, pc, volumes, addresses, snapshots,
                   unattached_volumes, volume_results, orphaned_eips,
                   eip_results, old_snapshots, snapshot_results, response>>
    /\ UNCHANGED list_errors

\* cleanup_unattached_volumes, up to its loop (lines 60-62): every volume
\* the listing returns is a candidate.
CleanupUnattachedVolumesList ==
    /\ pc = "rc_delete_snapshots"
    /\ i > Len(old_snapshots)
    /\ \E listed \in BOOLEAN, attrs \in SeqsUpTo(VolumeInputs, Room) :
        /\ volumes' = IF listed THEN Listing(attrs) ELSE <<>>
        /\ list_errors' = IF listed THEN list_errors
                        ELSE list_errors \cup {"describe_volumes"}
        /\ pc' = IF listed THEN "rc_delete_volumes" ELSE "crashed"
    /\ i' = 1
    /\ UNCHANGED <<prog, dry_run, now, addresses, snapshots,
                   unattached_volumes, volume_results, orphaned_eips,
                   eip_results, old_snapshots, snapshot_results,
                   cleanup_report, response, calls>>

\* One pass of the loop of cleanup_unattached_volumes (lines 64-82).
CleanupVolume(report, volume, dry, del) ==
    [report |-> [report EXCEPT
        !.volumes_deleted =
            Append(@, [id |-> volume.Id, size_gb |-> volume.Attrs.Size])],
     issued |-> IF ~dry THEN <<Call("delete_volume", volume.Id, del)>>
                ELSE <<>>]

CleanupUnattachedVolume ==
    /\ pc = "rc_delete_volumes"
    /\ i <= Len(volumes)
    /\ \E del \in DeleteOutcomes :
        LET r == CleanupVolume(cleanup_report, volumes[i], dry_run, del)
        IN /\ cleanup_report' = r.report
           /\ calls' = calls \o r.issued
    /\ i' = i + 1
    /\ UNCHANGED <<prog, dry_run, now, pc, volumes, addresses, snapshots,
                   unattached_volumes, volume_results, orphaned_eips,
                   eip_results, old_snapshots, snapshot_results, response>>
    /\ UNCHANGED list_errors

\* cleanup_unassociated_eips, up to its loop (lines 90-91).
CleanupUnassociatedEipsList ==
    /\ pc = "rc_delete_volumes"
    /\ i > Len(volumes)
    /\ \E listed \in BOOLEAN, attrs \in SeqsUpTo(AddressInputs, Room) :
        /\ addresses' = IF listed THEN Listing(attrs) ELSE <<>>
        /\ list_errors' = IF listed THEN list_errors
                        ELSE list_errors \cup {"describe_addresses"}
        /\ orphaned_eips' =
             FilterSeq(addresses',
                       {k \in 1..Len(addresses') :
                            ~addresses'[k].Attrs.Associated})
        /\ pc' = IF listed THEN "rc_release_eips" ELSE "crashed"
    /\ i' = 1
    /\ UNCHANGED <<prog, dry_run, now, volumes, snapshots, unattached_volumes,
                   volume_results, eip_results, old_snapshots,
                   snapshot_results, cleanup_report, response, calls>>

\* One pass of the loop of cleanup_unassociated_eips (lines 93-109):
\* release_address is called when not dry_run and the address has an
\* AllocationId.
CleanupEip(report, eip, dry, rel) ==
    [report |-> [report EXCEPT
        !.eips_released =
            Append(@, [ip |-> eip.Id, savings_per_month |-> EipCentsPerMonth])],
     issued |-> IF ~dry /\ eip.Attrs.HasAllocationId
                THEN <<Call("release_address", eip.Id, rel)>>
                ELSE <<>>]

CleanupUnassociatedEip ==
    /\ pc = "rc_release_eips"
    /\ i <= Len(orphaned_eips)
    /\ \E rel \in DeleteOutcomes :
        LET r == CleanupEip(cleanup_report, orphaned_eips[i], dry_run, rel)
        IN /\ cleanup_report' = r.report
           /\ calls' = calls \o r.issued
    /\ i' = i + 1
    /\ UNCHANGED <<prog, dry_run, now, pc, volumes, addresses, snapshots,
                   unattached_volumes, volume_results, orphaned_eips,
                   eip_results, old_snapshots, snapshot_results, response>>
    /\ UNCHANGED list_errors

\* run_cleanup: total_savings (lines 124-127).
CleanupTotalSavings(report) ==
    LET sd == report.snapshots_deleted
        snapshot_savings ==
            SumSeq([k \in 1..Len(sd) |-> sd[k].savings_per_month])
        eip_savings == Len(report.eips_released) * EipCentsPerMonth
    IN snapshot_savings + eip_savings

\* run_cleanup, after the three cleanups (lines 123-141).
RunCleanupSummary ==
    /\ pc = "rc_release_eips"
    /\ i > Len(orphaned_eips)
    /\ cleanup_report' =
         [cleanup_report EXCEPT
            !.total_savings = CleanupTotalSavings(cleanup_report)]
    /\ pc' = "done"
    /\ UNCHANGED <<prog, dry_run, now, i, volumes, addresses, snapshots,
                   unattached_volumes, volume_results, orphaned_eips,
                   eip_results, old_snapshots, snapshot_results, response,
                   calls>>
    /\ UNCHANGED list_errors

CleanupNext ==
    \/ CleanupOldSnapshotsList
    \/ CleanupOldSnapshot
    \/ CleanupUnattachedVolumesList
    \/ CleanupUnattachedVolume
    \/ CleanupUnassociatedEipsList
    \/ CleanupUnassociatedEip
    \/ RunCleanupSummary

\* ------------------------------------------------- the analysis functions
\*
\* The functions below are applied to arguments drawn from bounded sets; call
\* holds the function and its arguments, result what it returned.

\* No function has been called yet; each behaviour is one call.
Idle == call = NoCall

\* ---------------------------------- aws-cost-analyzer.py (AWSCostAnalyzer)

\* The longest daily cost series.
MaxSeries == 3
\* Daily costs (the 'Amount' of a day, a whole number here).
Costs == {0, 100, 105, 120, 150, 160}
\* threshold_percentage: the default, and another one.
Thresholds == {20, 50}
HighChangePercent == 50

Abs(x) == IF x < 0 THEN -x ELSE x

\* abs(change_percentage) > percent, where
\* change_percentage = ((current - previous) / previous) * 100.
ChangeExceeds(current, previous, percent) ==
    Abs(current - previous) * 100 > percent * Abs(previous)

\* previous_cost is None before the first result and a cost after it.
None == <<>>
Some(cost) == <<cost>>
\* The test 'previous_cost is not None' in place of the truth value.
Truthy_NotNone(previous_cost) == previous_cost # None
\* Python's truth value of previous_cost: None and 0 are false.
Truthy(previous_cost) == previous_cost # None /\ previous_cost[1] # 0

\* The anomaly appended for the result at index k (lines 87-93); the date of
\* a result is its index, and change_percentage is left to its two costs.
Anomaly(k, current_cost, previous_cost) ==
    [date |-> k,
     current_cost |-> current_cost,
     previous_cost |-> previous_cost,
     severity |-> IF ChangeExceeds(current_cost, previous_cost,
                                   HighChangePercent)
                  THEN "HIGH" ELSE "MEDIUM"]

RECURSIVE CostAnomalyLoop(_, _, _, _, _)
\* The loop of detect_cost_anomalies from index k on (lines 80-95).
CostAnomalyLoop(results, k, previous_cost, threshold_percentage, anomalies) ==
    IF k > Len(results) THEN anomalies
    ELSE LET current_cost == results[k]
             flagged == /\ Truthy(previous_cost)
                        /\ ChangeExceeds(current_cost, previous_cost[1],
                                         threshold_percentage)
         IN CostAnomalyLoop(results, k + 1, Some(current_cost),
                threshold_percentage,
                IF flagged
                THEN Append(anomalies, Anomaly(k, current_cost, previous_cost[1]))
                ELSE anomalies)

RECURSIVE CostAnomalyLoop_FirstBaseline(_, _, _, _, _)
\* The loop with previous_cost set once, from the first result.
CostAnomalyLoop_FirstBaseline(results, k, previous_cost, threshold_percentage,
                              anomalies) ==
    IF k > Len(results) THEN anomalies
    ELSE LET current_cost == results[k]
             flagged == /\ Truthy(previous_cost)
                        /\ ChangeExceeds(current_cost, previous_cost[1],
                                         threshold_percentage)
         IN CostAnomalyLoop_FirstBaseline(results, k + 1,
                IF previous_cost = None THEN Some(current_cost)
                                        ELSE previous_cost,
                threshold_percentage,
                IF flagged
                THEN Append(anomalies, Anomaly(k, current_cost, previous_cost[1]))
                ELSE anomalies)

\* detect_cost_anomalies with the baseline never advanced.
detect_cost_anomalies_FirstBaseline(results, threshold_percentage) ==
    CostAnomalyLoop_FirstBaseline(results, 1, None, threshold_percentage, <<>>)
\* detect_cost_anomalies(start_date, end_date, threshold_percentage) on the
\* daily costs that get_cost_and_usage returned.
detect_cost_anomalies(results, threshold_percentage) ==
    CostAnomalyLoop(results, 1, None, threshold_percentage, <<>>)

DetectCostAnomalies ==
    /\ Idle
    /\ \E results \in SeqsUpTo(Costs, MaxSeries), threshold \in Thresholds :
        /\ call' = [fn |-> "detect_cost_anomalies", results |-> results,
                    threshold_percentage |-> threshold]
        /\ result' = detect_cost_anomalies(results, threshold)
    /\ UNCHANGED <<runVars, flowVars>>

\* Monthly totals of a report, in dollars.
TotalCosts == {0, 100, 300}
UntaggedTotals == {0, 33, 50, 100}

\* round(x, 2) of the ratio num / den * 100, as a number of hundredths of a
\* percent: the nearest one, the even one of two equally near.
RoundHundredths(num, den) ==
    LET q == (num * 10000) \div den
        r == (num * 10000) % den
    IN IF 2 * r < den THEN q
       ELSE IF 2 * r > den THEN q + 1
       ELSE IF q % 2 = 0 THEN q ELSE q + 1

\* report['analysis']['untagged_percentage'] (generate_report, line 215), in
\* hundredths of a percent.
untagged_percentage(untagged_total, total_cost) ==
    IF total_cost > 0 THEN RoundHundredths(untagged_total, total_cost) ELSE 0

UntaggedPercentage ==
    /\ Idle
    /\ \E untagged_total \in UntaggedTotals, total_cost \in TotalCosts :
        /\ call' = [fn |-> "untagged_percentage",
                    untagged_total |-> untagged_total,
                    total_cost |-> total_cost]
        /\ result' = untagged_percentage(untagged_total, total_cost)
    /\ UNCHANGED <<runVars, flowVars>>

\* ------------------------------------ budget-alert-lambda.py (lambda_handler)

\* Budget limits and spends in dollars; every spend is a whole percentage of
\* every positive limit, and each threshold has a spend just below it.
BudgetLimits == {0, 100, 200}
Spends == {0, 80, 90, 100, 158, 160, 178, 180, 198, 200, 250}

\* (spend / budget_limit) * 100 if budget_limit > 0 else 0, with 100 for a
\* budget without a limit.
SpendPercentage_Full(spend, budget_limit) ==
    IF budget_limit > 0 THEN (spend * 100) \div budget_limit ELSE 100
\* (spend / budget_limit) * 100 if budget_limit > 0 else 0 (lines 38-39).
SpendPercentage(spend, budget_limit) ==
    IF budget_limit > 0 THEN (spend * 100) \div budget_limit ELSE 0

\* The alert level of one budget with the forecast looked at first.
AlertLevel_ForecastFirst(actual_percentage, forecast_percentage) ==
    IF forecast_percentage >= 100 THEN "WARNING"
    ELSE IF actual_percentage >= 100 THEN "CRITICAL"
    ELSE IF actual_percentage >= 90 THEN "HIGH"
    ELSE IF actual_percentage >= 80 THEN "MEDIUM"
    ELSE "None"
\* The alert level of one budget (lines 42-50); None for no alert.
AlertLevel(actual_percentage, forecast_percentage) ==
    IF actual_percentage >= 100 THEN "CRITICAL"
    ELSE IF actual_percentage >= 90 THEN "HIGH"
    ELSE IF actual_percentage >= 80 THEN "MEDIUM"
    ELSE IF forecast_percentage >= 100 THEN "WARNING"
    ELSE "None"

\* One budget of the loop of lambda_handler (lines 29-50).
CheckBudget ==
    /\ Idle
    /\ \E budget_limit \in BudgetLimits, actual_spend \in Spends,
          forecasted_spend \in Spends :
        LET actual_percentage == SpendPercentage(actual_spend, budget_limit)
            forecast_percentage ==
                SpendPercentage(forecasted_spend, budget_limit)
        IN /\ call' = [fn |-> "check_budget", budget_limit |-> budget_limit,
                       actual_spend |-> actual_spend,
                       forecasted_spend |-> forecasted_spend]
           /\ result' = [actual_percentage |-> actual_percentage,
                         forecast_percentage |-> forecast_percentage,
                         alert_level |-> AlertLevel(actual_percentage,
                                                    forecast_percentage)]
    /\ UNCHANGED <<runVars, flowVars>>

\* The budgets describe_budgets can list: limit, actual and forecasted spend.
MaxBudgets == 2
HandlerBudgets ==
    [budget_limit : {0, 100}, actual_spend : {0, 80, 90, 100},
     forecasted_spend : {0, 100}]
BudgetLists ==
    UNION {[1..n -> HandlerBudgets] : n \in 0..MaxBudgets}

\* The alert of one budget (lines 53-62); the budget's name is its position
\* in the listing.
Alert(budget_name, budget) ==
    LET actual_percentage ==
            SpendPercentage(budget.actual_spend, budget.budget_limit)
        forecast_percentage ==
            SpendPercentage(budget.forecasted_spend, budget.budget_limit)
    IN [budget_name |-> budget_name,
        budget_limit |-> budget.budget_limit,
        actual_spend |-> budget.actual_spend,
        forecasted_spend |-> budget.forecasted_spend,
        actual_percentage |-> actual_percentage,
        forecast_percentage |-> forecast_percentage,
        alert_level |-> AlertLevel(actual_percentage, forecast_percentage)]

\* send_alert (lines 79-104): one sns.publish; an exception is printed and
\* swallowed.
send_alert(alert, publish_raises) ==
    [published |-> <<alert.budget_name>>,
     printed |-> IF publish_raises THEN <<"Failed to send alert">>
                 ELSE <<"Alert sent">>]

\* publish_metric (lines 106-127): one cloudwatch.put_metric_data; an
\* exception is printed and swallowed.
publish_metric(budget_name, put_raises) ==
    [put |-> <<budget_name>>,
     printed |-> IF put_raises THEN <<"Failed to publish metric">>
                 ELSE <<>>]

\* The loop of lambda_handler from budget k on (lines 29-69): the alerts, the
\* sns.publish and put_metric_data calls made, and the lines printed.
RECURSIVE BudgetLoop(_, _, _, _, _)
BudgetLoop(budgets_list, publish_fails, put_fails, k, acc) ==
    IF k > Len(budgets_list) THEN acc
    ELSE LET alert == Alert(k, budgets_list[k])
             sent == send_alert(alert, k \in publish_fails)
             metric == publish_metric(k, k \in put_fails)
         IN BudgetLoop(budgets_list, publish_fails, put_fails, k + 1,
                IF alert.alert_level # "None"
                THEN [alerts |-> Append(acc.alerts, alert),
                      sns_publish |-> acc.sns_publish \o sent.published,
                      put_metric_data |-> acc.put_metric_data \o metric.put,
                      printed |-> acc.printed \o sent.printed
                                  \o metric.printed]
                ELSE acc)

\* lambda_handler (lines 20-77): an exception of describe_budgets leaves the
\* handler; otherwise the loop runs and the response is returned.
budget_lambda_handler(described, budgets_list, publish_fails, put_fails) ==
    IF ~described
    THEN [raised |-> TRUE, statusCode |-> 0, alerts_triggered |-> 0,
          alerts |-> <<>>, sns_publish |-> <<>>, put_metric_data |-> <<>>,
          printed |-> <<>>]
    ELSE LET done == BudgetLoop(budgets_list, publish_fails, put_fails, 1,
                         [alerts |-> <<>>, sns_publish |-> <<>>,
                          put_metric_data |-> <<>>, printed |-> <<>>])
         IN [raised |-> FALSE, statusCode |-> 200,
             alerts_triggered |-> Len(done.alerts),
             alerts |-> done.alerts,
             sns_publish |-> done.sns_publish,
             put_metric_data |-> done.put_metric_data,
             printed |-> done.printed]

\* One invocation of the budget alert Lambda: the listing, and the budgets
\* whose sns.publish or put_metric_data raises.
BudgetLambdaHandler ==
    /\ Idle
    /\ \E described \in BOOLEAN, budgets_list \in BudgetLists :
        \E publish_fails \in SUBSET DOMAIN budgets_list,
           put_fails \in SUBSET DOMAIN budgets_list :
            /\ described \/ (budgets_list = <<>>)
            /\ call' = [fn |-> "budget_lambda_handler",
                        described |-> described,
                        budgets_list |-> budgets_list,
                        publish_fails |-> publish_fails,
                        put_fails |-> put_fails]
            /\ result' = budget_lambda_handler(described, budgets_list,
                                               publish_fails, put_fails)
    /\ UNCHANGED <<runVars, flowVars>>

\* ------------------------------------- cost-optimizer.py (send_notification)

\* send_notification (lines 453-467): nothing is published without a topic;
\* an exception of sns_client.publish is logged and swallowed.
send_notification(configured, publish_raises) ==
    IF ~configured
    THEN [raised |-> FALSE, published |-> <<>>,
          logged |-> <<"SNS_TOPIC_ARN not configured, skipping notification">>]
    ELSE [raised |-> FALSE, published |-> <<"AWS Cost Optimization Report">>,
          logged |-> IF publish_raises
                     THEN <<"Failed to send notification">>
                     ELSE <<"Notification sent successfully">>]

SendNotification ==
    /\ Idle
    /\ \E configured \in BOOLEAN, publish_raises \in BOOLEAN :
        /\ call' = [fn |-> "send_notification", configured |-> configured,
                    publish_raises |-> publish_raises]
        /\ result' = send_notification(configured, publish_raises)
    /\ UNCHANGED <<runVars, flowVars>>

\* ------------------------------------------ mlops-pipeline.py (monitoring)

\* Accuracies in hundredths; threshold_accuracy defaults to 0.85.
ThresholdAccuracy == 85
Accuracies == {80, 85, 90}

\* send_alert (lines 331-340): one requests.post, whose exception leaves the
\* function.
monitoring_send_alert(message, severity, post_raises) ==
    [raised |-> post_raises, posted |-> <<[severity |-> severity,
                                          message |-> message]>>]

\* detect_data_drift (lines 274-302): the drift metrics are returned unless
\* send_alert raised inside the MLflow run.
detect_data_drift(drift_detected, post_raises) ==
    IF drift_detected
    THEN LET sent == monitoring_send_alert(
                         "Data drift detected in production model",
                         "WARNING", post_raises)
         IN [raised |-> sent.raised, returned |-> ~sent.raised,
             posted |-> sent.posted,
             printed |-> <<"Data drift detected!">>]
    ELSE [raised |-> FALSE, returned |-> TRUE, posted |-> <<>>,
          printed |-> <<"No significant drift detected">>]

DetectDataDrift ==
    /\ Idle
    /\ \E drift_detected \in BOOLEAN, post_raises \in BOOLEAN :
        /\ call' = [fn |-> "detect_data_drift",
                    drift_detected |-> drift_detected,
                    post_raises |-> post_raises]
        /\ result' = detect_data_drift(drift_detected, post_raises)
    /\ UNCHANGED <<runVars, flowVars>>

\* monitor_model_performance (lines 304-329): an accuracy below the
\* threshold is alerted, and the function ends normally unless send_alert
\* raised.
monitor_model_performance(accuracy, threshold_accuracy, post_raises) ==
    IF accuracy < threshold_accuracy
    THEN LET sent == monitoring_send_alert("Model accuracy below threshold",
                                           "CRITICAL", post_raises)
         IN [raised |-> sent.raised, returned |-> ~sent.raised,
             posted |-> sent.posted]
    ELSE [raised |-> FALSE, returned |-> TRUE, posted |-> <<>>]

MonitorModelPerformance ==
    /\ Idle
    /\ \E accuracy \in Accuracies, post_raises \in BOOLEAN :
        /\ call' = [fn |-> "monitor_model_performance",
                    accuracy |-> accuracy,
                    threshold_accuracy |-> ThresholdAccuracy,
                    post_raises |-> post_raises]
        /\ result' = monitor_model_performance(accuracy, ThresholdAccuracy,
                                               post_raises)
    /\ UNCHANGED <<runVars, flowVars>>

\* ------------------- rightsizing-recommendations.py (RightSizingAnalyzer)

\* The most datapoints CloudWatch returns for an instance.
MaxDatapoints == 3
\* The 'Average' of a datapoint, a whole percentage here.
Utilizations == {0, 4, 9, 15, 25, 85, 95}
\* cpu_avg and cpu_p95 around the thresholds of generate_ec2_recommendation.
CpuValues == {0, 4, 5, 9, 10, 19, 20, 80, 81, 90, 91, 100}
\* The size part of an instance type (t3.<size>): an optional "2", some
\* "x" and a base word, so that 2xlarge is Size(TRUE, 1, "large").
Size(two, xs, base) == [two |-> two, xs |-> xs, base |-> base]
InstanceSizes ==
    {Size(FALSE, 0, base) : base \in {"micro", "small", "medium", "large"}}
    \cup {Size(FALSE, 1, "large"), Size(TRUE, 1, "large")}

\* An average is kept as the exact quotient num / den.
Ratio(num, den) == [num |-> num, den |-> den]
Below(ratio, x) == ratio.num < x * ratio.den
Above(ratio, x) == ratio.num > x * ratio.den

RECURSIVE Insert(_, _)
Insert(sorted, v) ==
    IF sorted = <<>> THEN <<v>>
    ELSE IF v <= Head(sorted) THEN <<v>> \o sorted
    ELSE <<Head(sorted)>> \o Insert(Tail(sorted), v)
RECURSIVE Sorted(_)
\* sorted(values)
Sorted(values) ==
    IF values = <<>> THEN <<>>
    ELSE Insert(Sorted(Tail(values)), Head(values))

SeqMax(values) == CHOOSE v \in Range(values) : \A w \in Range(values) : w <= v

ZeroStats == [average |-> Ratio(0, 1), max |-> 0, p95 |-> 0]

\* int(len(values) * 0.95), the index from 0 of the p95 in sorted(values).
P95Index(n) == (n * 95) \div 100

\* get_metric_stats with 95 percent of the maximum taken for the p95.
get_metric_stats_PercentOfMax(datapoints, query_fails) ==
    IF query_fails THEN ZeroStats
    ELSE IF datapoints # <<>>
    THEN [average |-> Ratio(SumSeq(datapoints), Len(datapoints)),
          max |-> SeqMax(datapoints),
          p95 |-> (SeqMax(datapoints) * 95) \div 100]
    ELSE ZeroStats
\* get_metric_stats (lines 65-90) on the datapoints CloudWatch returns, or on
\* a query that raises.
get_metric_stats(datapoints, query_fails) ==
    IF query_fails THEN ZeroStats
    ELSE IF datapoints # <<>>
    THEN [average |-> Ratio(SumSeq(datapoints), Len(datapoints)),
          max |-> SeqMax(datapoints),
          p95 |-> Sorted(datapoints)[P95Index(Len(datapoints)) + 1]]
    ELSE ZeroStats

\* The most datapoints of a long series (14 days of hourly datapoints are
\* 336).
MaxLongSeries == 41
\* A long series of n different datapoints that is not sorted: twice the
\* multiples of stride modulo 43, in percent.
LongSeries(n, stride) == [k \in 1..n |-> ((k * stride) % 43) * 2]

\* get_metric_stats on the datapoints of one instance (lines 80-87).
GetMetricStats ==
    /\ Idle
    /\ \E datapoints \in
            (SeqsUpTo(Utilizations, MaxDatapoints) \ {<<>>})
            \cup {LongSeries(n, stride) : n \in 1..MaxLongSeries,
                                          stride \in {3, 7}} :
        /\ call' = [fn |-> "get_metric_stats", datapoints |-> datapoints]
        /\ result' = get_metric_stats(datapoints, FALSE)
    /\ UNCHANGED <<runVars, flowVars>>

\* 'size in instance_type' for the keys of the two size maps.
Has2xlarge(t) == t.two /\ t.xs = 1 /\ t.base = "large"
HasXlarge(t) == t.xs >= 1 /\ t.base = "large"
HasLarge(t) == t.base = "large"
HasMedium(t) == t.base = "medium"
HasSmall(t) == t.base = "small"

\* suggest_smaller_instance (lines 125-139): the first key of size_map, in
\* the order 2xlarge, xlarge, large, medium, that occurs in the instance type
\* is replaced.
suggest_smaller_instance(size) ==
    IF Has2xlarge(size) THEN Size(FALSE, 1, "large")
    ELSE IF HasXlarge(size) THEN [size EXCEPT !.xs = @ - 1]
    ELSE IF HasLarge(size) THEN [size EXCEPT !.base = "medium"]
    ELSE IF HasMedium(size) THEN [size EXCEPT !.base = "small"]
    ELSE size

\* suggest_larger_instance (lines 141-154): the first key of size_map, in
\* the order small, medium, large, xlarge, that occurs in the instance type
\* is replaced; 'large' occurs in every type in which 'xlarge' does.
suggest_larger_instance(size) ==
    IF HasSmall(size) THEN [size EXCEPT !.base = "medium"]
    ELSE IF HasMedium(size) THEN [size EXCEPT !.base = "large"]
    ELSE IF HasLarge(size) THEN [size EXCEPT !.xs = @ + 1]
    ELSE IF HasXlarge(size) THEN Size(TRUE, 1, "large")
    ELSE size

NoRecommendation ==
    [action |-> "None", suggested_type |-> "None", priority |-> "None"]

\* generate_ec2_recommendation with the bounds of the over-provisioned case
\* included.
generate_ec2_recommendation_Inclusive(size, cpu) ==
    IF ~Above(cpu.average, 10) /\ cpu.p95 <= 20
    THEN [action |-> "DOWNSIZE",
          suggested_type |-> suggest_smaller_instance(size),
          priority |-> IF Below(cpu.average, 5) THEN "HIGH" ELSE "MEDIUM"]
    ELSE IF Above(cpu.average, 80) \/ cpu.p95 > 90
    THEN [action |-> "UPSIZE",
          suggested_type |-> suggest_larger_instance(size),
          priority |-> "HIGH"]
    ELSE NoRecommendation
\* generate_ec2_recommendation (lines 92-123) on metrics['cpu_utilization'].
generate_ec2_recommendation(size, cpu) ==
    IF Below(cpu.average, 10) /\ cpu.p95 < 20
    THEN [action |-> "DOWNSIZE",
          suggested_type |-> suggest_smaller_instance(size),
          priority |-> IF Below(cpu.average, 5) THEN "HIGH" ELSE "MEDIUM"]
    ELSE IF Above(cpu.average, 80) \/ cpu.p95 > 90
    THEN [action |-> "UPSIZE",
          suggested_type |-> suggest_larger_instance(size),
          priority |-> "HIGH"]
    ELSE NoRecommendation

GenerateEc2Recommendation ==
    /\ Idle
    /\ \E size \in InstanceSizes, cpu_avg \in CpuValues, cpu_p95 \in CpuValues :
        /\ call' = [fn |-> "generate_ec2_recommendation", size |-> size,
                    cpu_avg |-> cpu_avg, cpu_p95 |-> cpu_p95]
        /\ result' = generate_ec2_recommendation(size,
                        [average |-> Ratio(cpu_avg, 1), max |-> 100,
                         p95 |-> cpu_p95])
    /\ UNCHANGED <<runVars, flowVars>>

\* suggest_larger_instance and suggest_smaller_instance on one instance type,
\* and each on the result of the other.
SuggestInstance ==
    /\ Idle
    /\ \E size \in InstanceSizes :
        /\ call' = [fn |-> "suggest_instance", size |-> size]
        /\ result' =
             [larger |-> suggest_larger_instance(size),
              smaller |-> suggest_smaller_instance(size),
              smaller_of_larger |->
                  suggest_smaller_instance(suggest_larger_instance(size)),
              larger_of_smaller |->
                  suggest_larger_instance(suggest_smaller_instance(size))]
    /\ UNCHANGED <<runVars, flowVars>>

\* One running instance of the loop of analyze_ec2_instances (lines 28-42):
\* its metrics are fetched and its recommendation, if any, is appended.
AnalyzeEc2Instance ==
    /\ Idle
    /\ \E size \in InstanceSizes, query_fails \in BOOLEAN,
          datapoints \in SeqsUpTo(Utilizations, MaxDatapoints) :
        /\ call' = [fn |-> "analyze_ec2_instance", size |-> size,
                    datapoints |-> datapoints, query_fails |-> query_fails]
        /\ result' = generate_ec2_recommendation(size,
                        get_metric_stats(datapoints, query_fails))
    /\ UNCHANGED <<runVars, flowVars>>

\* ------------------------------- cost-optimizer.py (analyze_ec2_utilization)

\* One running instance of the loop of analyze_ec2_utilization (lines
\* 343-368): whether it is appended to underutilized_instances.  A metric
\* query that raises ends the loop in the except clause of line 372.
Underutilized(datapoints, query_fails) ==
    /\ ~query_fails
    /\ datapoints # <<>>
    /\ Below(Ratio(SumSeq(datapoints), Len(datapoints)), 10)

AnalyzeEc2Utilization ==
    /\ Idle
    /\ \E query_fails \in BOOLEAN,
          datapoints \in SeqsUpTo(Utilizations, MaxDatapoints) :
        /\ call' = [fn |-> "analyze_ec2_utilization",
                    datapoints |-> datapoints, query_fails |-> query_fails]
        /\ result' = [underutilized |-> Underutilized(datapoints, query_fails)]
    /\ UNCHANGED <<runVars, flowVars>>

\* find_unattached_volumes called twice on an account holding the same one
\* volume; each call reads datetime.now() (line 57), and the clock does not
\* run backwards between the calls.
FindUnattachedVolumesTwice ==
    /\ Idle
    /\ \E volume \in VolumeInputs, first_now \in NowTimes,
          second_now \in NowTimes :
        /\ first_now <= second_now
        /\ call' = [fn |-> "find_unattached_volumes", volume |-> volume,
                    clock |-> <<first_now, second_now>>]
        /\ result' =
             <<find_unattached_volumes(Listing(<<volume>>), <<first_now>>),
               find_unattached_volumes(Listing(<<volume>>), <<second_now>>)>>
    /\ UNCHANGED <<runVars, flowVars>>

\* Neither the Lambda nor ResourceCleanup is running.
RunIdle ==
    /\ prog = "none"
    /\ dry_run = TRUE
    /\ now = <<>>
    /\ pc = "idle"
    /\ i = 1
    /\ volumes = <<>>
    /\ addresses = <<>>
    /\ snapshots = <<>>
    /\ unattached_volumes = <<>>
    /\ volume_results = EmptyVolumeResults
    /\ orphaned_eips = <<>>
    /\ eip_results = EmptyEipResults
    /\ old_snapshots = <<>>
    /\ snapshot_results = EmptySnapshotResults
    /\ cleanup_report = EmptyCleanupReport
    /\ response = NoResponse
    /\ calls = <<>>
    /\ list_errors = {}

AnalysisInit ==
    /\ RunIdle
    /\ AnalysisIdle
    /\ FlowIdle

AnalysisNext ==
    \/ DetectCostAnomalies
    \/ UntaggedPercentage
    \/ CheckBudget
    \/ BudgetLambdaHandler
    \/ SendNotification
    \/ DetectDataDrift
    \/ MonitorModelPerformance
    \/ GenerateEc2Recommendation
    \/ GetMetricStats
    \/ SuggestInstance
    \/ AnalyzeEc2Instance
    \/ AnalyzeEc2Utilization
    \/ FindUnattachedVolumesTwice

AnalysisSpec == AnalysisInit /\ [][AnalysisNext]_vars

\* --------------------------------- flow-log-analyzer.py (FlowLogAnalyzer)
\*
\* Byte counts are in MiB, so that 1 GiB is 1024.  The source address of a
\* flow is its index in traffic.  The rows a query returns are kept as a set:
\* generate_report stores only their number.

\* The most source addresses in the flow log.
MaxSources == 2
MiBPerGiB == 1024
\* unique_ports > 20 in the query of detect_port_scanning
PortScanThreshold == 20
\* threshold_gb, by default
ThresholdGb == 10
\* The size of one accepted and one rejected flow, in MiB.
AcceptMiB == 5120
RejectMiB == 512
\* Destination ports of accepted flows start here, apart from the rejected.
AcceptPortBase == 1000

\* What one source sent: the number of distinct destination ports it was
\* rejected on, whether each such flow is in the log twice, and the number
\* of its accepted flows.
Profiles == [reject_ports : {15, 20, 21, 25}, twice : BOOLEAN,
             accept_flows : {0, 2, 3}]

\* The flow log entries of source src.
Entries(src, profile) ==
    {[record |-> <<"R", port, copy>>, srcAddr |-> src, dstPort |-> port,
      action |-> "REJECT", bytes |-> RejectMiB] :
        port \in 1..profile.reject_ports,
        copy \in 1..(IF profile.twice THEN 2 ELSE 1)}
    \cup
    {[record |-> <<"A", k, 1>>, srcAddr |-> src, dstPort |-> AcceptPortBase + k,
      action |-> "ACCEPT", bytes |-> AcceptMiB] :
        k \in 1..profile.accept_flows}

FlowLog(sources) == UNION {Entries(src, sources[src]) : src \in DOMAIN sources}

RECURSIVE SumBytes(_)
SumBytes(entries) ==
    IF entries = {} THEN 0
    ELSE LET e == CHOOSE x \in entries : TRUE
         IN e.bytes + SumBytes(entries \ {e})

SourcesOf(log) == {e.srcAddr : e \in log}

\* filter action = "REJECT" | stats count_distinct(dstPort) as unique_ports
\* by srcAddr
UniquePorts(log, src) ==
    Cardinality({e.dstPort : e \in {x \in log : /\ x.action = "REJECT"
                                                /\ x.srcAddr = src}})

\* filter action = "ACCEPT" | stats sum(bytes) as total_bytes by srcAddr
TotalBytes(log, src) ==
    SumBytes({x \in log : x.action = "ACCEPT" /\ x.srcAddr = src})

\* The query of detect_port_scanning with the filter unique_ports >= 20.
PortScanRows_Inclusive(log) ==
    {[srcAddr |-> src, unique_ports |-> UniquePorts(log, src)] :
        src \in {a \in SourcesOf(log) :
                    UniquePorts(log, a) >= PortScanThreshold}}
\* The rows of the query of detect_port_scanning (lines 51-57).
PortScanRows(log) ==
    {[srcAddr |-> src, unique_ports |-> UniquePorts(log, src)] :
        src \in {a \in SourcesOf(log) :
                    UniquePorts(log, a) > PortScanThreshold}}

\* The rows of the query of detect_data_exfiltration (lines 80-86).
ExfiltrationRows(log, threshold_gb) ==
    {[srcAddr |-> src, total_bytes |-> TotalBytes(log, src)] :
        src \in {a \in {e.srcAddr : e \in {x \in log : x.action = "ACCEPT"}} :
                    TotalBytes(log, a) > threshold_gb * MiBPerGiB}}

\* The rows of the query of query_flow_logs (lines 24-30): rejections by
\* source and destination port; the log has fewer than 100 such groups.
RejectionRows(log) ==
    {[srcAddr |-> g[1], dstPort |-> g[2],
      rejections |-> Cardinality({x \in log : /\ x.action = "REJECT"
                                              /\ x.srcAddr = g[1]
                                              /\ x.dstPort = g[2]})] :
        g \in {<<e.srcAddr, e.dstPort>> :
                  e \in {x \in log : x.action = "REJECT"}}}

RECURSIVE SumRejections(_)
\* total_denials of analyze_security_group_denials (line 128)
SumRejections(rows) ==
    IF rows = {} THEN 0
    ELSE LET r == CHOOSE x \in rows : TRUE
         IN r.rejections + SumRejections(rows \ {r})

\* generate_report calls the detectors in this order (lines 142, 153, 165).
Detectors ==
    <<"detect_port_scanning", "detect_data_exfiltration", "query_flow_logs">>

\* What the query of detector d returns once it is Complete.
QueryResults(d, log) ==
    CASE d = 1 -> PortScanRows(log)
      [] d = 2 -> ExfiltrationRows(log, ThresholdGb)
      [] d = 3 -> RejectionRows(log)

FlowInit ==
    /\ RunIdle
    /\ AnalysisIdle
    /\ traffic \in SeqsUpTo(Profiles, MaxSources)
    /\ detector = 1
    /\ step = "start"
    /\ status = "none"
    /\ findings = NoFindings
    /\ flow_report = NoReport

\* self.logs.start_query(...): the query starts, or the call raises and
\* generate_report ends with the exception.
StartQuery ==
    /\ step = "start"
    /\ \E raises \in BOOLEAN :
        IF raises
        THEN /\ step' = "crashed"
             /\ UNCHANGED status
        ELSE /\ step' = "poll"
             /\ status' = "Running"
    /\ UNCHANGED <<traffic, detector, findings, flow_report>>
    /\ UNCHANGED <<runVars, analysisVars>>

\* CloudWatch Logs ends the running query.
QueryEnds ==
    /\ status = "Running"
    /\ status' \in {"Complete", "Failed"}
    /\ UNCHANGED <<traffic, detector, step, findings, flow_report>>
    /\ UNCHANGED <<runVars, analysisVars>>

\* One turn of the loop 'while True' up to the sleep (lines 72-75): the
\* results are returned if the status is Complete; if get_query_results
\* raises, nothing catches the exception and generate_report ends with it.
GetQueryResults ==
    /\ step = "poll"
    /\ \E raises \in BOOLEAN :
        IF raises
        THEN /\ step' = "crashed"
             /\ UNCHANGED <<detector, status, findings>>
        ELSE IF status = "Complete"
        THEN /\ findings' = [findings EXCEPT
                   ![detector] = <<QueryResults(detector, FlowLog(traffic))>>]
             /\ IF detector < Len(Detectors)
                THEN /\ detector' = detector + 1
                     /\ step' = "start"
                ELSE /\ step' = "report"
                     /\ UNCHANGED detector
             /\ status' = "none"
        ELSE /\ step' = "sleep"
             /\ UNCHANGED <<detector, status, findings>>
    /\ UNCHANGED <<traffic, flow_report>>
    /\ UNCHANGED <<runVars, analysisVars>>

\* time.sleep(1) (line 76), then the loop turns again.
Sleep ==
    /\ step = "sleep"
    /\ step' = "poll"
    /\ UNCHANGED <<traffic, detector, status, findings, flow_report>>
    /\ UNCHANGED <<runVars, analysisVars>>

\* The report of generate_report (lines 192-202).
WriteReport ==
    /\ step = "report"
    /\ flow_report' =
          [port_scans |-> Cardinality(findings[1][1]),
           data_exfiltration |-> Cardinality(findings[2][1]),
           total_denials |-> SumRejections(findings[3][1])]
    /\ step' = "done"
    /\ UNCHANGED <<traffic, detector, status, findings>>
    /\ UNCHANGED <<runVars, analysisVars>>

\* The steps of the analyzer's one thread.
AnalyzerStep ==
    \/ StartQuery
    \/ GetQueryResults
    \/ Sleep
    \/ WriteReport

FlowNext ==
    \/ AnalyzerStep
    \/ QueryEnds

\* The analyzer keeps running, and CloudWatch Logs ends every query.
FlowSpec ==
    /\ FlowInit
    /\ [][FlowNext]_vars
    /\ WF_vars(AnalyzerStep)
    /\ WF_vars(QueryEnds)

\* The runs of the two programs; the analysis functions are not part of them.
RunNext == LambdaNext \/ CleanupNext

Next == RunNext /\ UNCHANGED <<analysisVars, flowVars>>

Spec == Init /\ [][Next]_vars

\* ------------------------------------------------------------------ claims

CallIndices == 1..Len(calls)
Issued(op, id) == \E k \in CallIndices : calls[k].op = op /\ calls[k].id = id
IssuedOk(op, id) == \E k \in CallIndices : calls[k] = Call(op, id, "ok")
TimesIssued(op, id) ==
    Cardinality({k \in CallIndices : calls[k].op = op /\ calls[k].id = id})

\* Ids in the result lists.
FailedVolumeIds == {f.VolumeId : f \in Range(volume_results.failed)}
FailedEipIps == {f.PublicIp : f \in Range(eip_results.failed)}
CleanupVolumeIds == {e.id : e \in Range(cleanup_report.volumes_deleted)}

\* How many candidates a loop has handled so far.
Handled(loop, candidates) ==
    IF pc = loop THEN i - 1 ELSE Len(candidates)

DestructiveOps == {"delete_volume", "delete_snapshot", "release_address"}

\* C1: in a live run a volume is deleted, or recorded as deleted, only after
\* create_snapshot has returned successfully for that volume earlier in the
\* run, in the Lambda and in ResourceCleanup alike.
C1_DeleteOnlyAfterSnapshot ==
    ~dry_run =>
        /\ \A k \in CallIndices :
             calls[k].op = "delete_volume" =>
                \E j \in 1..(k - 1) :
                    calls[j] = Call("create_snapshot", calls[k].id, "ok")
        /\ \A id \in Range(volume_results.deleted) \cup CleanupVolumeIds :
             IssuedOk("create_snapshot", id)

\* C1, for the Lambda alone: delete_unattached_volumes keeps the order.
C1_LambdaDeleteOnlyAfterSnapshot ==
    prog = "lambda" => C1_DeleteOnlyAfterSnapshot

\* C2: when create_snapshot raises for a volume, delete_volume is never
\* called for it, the snapshot is not attempted again, the volume is in
\* 'failed' with the error as reason and not in 'deleted', and total_savings
\* holds the cost of the deleted volumes only.
C2_SnapshotFailureBlocksDelete ==
    prog = "lambda" =>
        /\ \A k \in CallIndices :
             (calls[k].op = "create_snapshot" /\ calls[k].res # "ok") =>
                LET id == calls[k].id
                IN /\ ~Issued("delete_volume", id)
                   /\ TimesIssued("create_snapshot", id) = 1
                   /\ id \notin Range(volume_results.deleted)
                   /\ [VolumeId |-> id, Error |-> calls[k].res]
                         \in Range(volume_results.failed)
        /\ volume_results.total_savings =
             SumSeq([k \in 1..Len(unattached_volumes) |->
                        IF IssuedOk("delete_volume",
                                    unattached_volumes[k].VolumeId) \/
                           (dry_run /\
                            k <= Handled("delete_volumes", unattached_volumes))
                        THEN unattached_volumes[k].MonthlyCost
                        ELSE 0])

\* A finished live run in which the snapshot of one volume failed and another
\* volume was deleted.
C2_Witness ==
    /\ prog = "lambda"
    /\ pc = "done"
    /\ \E k \in CallIndices :
         calls[k].op = "create_snapshot" /\ calls[k].res # "ok"
    /\ volume_results.deleted # <<>>

\* C3: in dry-run mode no destructive call (delete_volume, delete_snapshot,
\* release_address) is ever issued, by the Lambda or by ResourceCleanup.
C3_DryRunNoDestructiveCall ==
    dry_run => \A k \in CallIndices : calls[k].op \notin DestructiveOps

\* A finished dry run of the Lambda that reported a volume and an address.
C3_Witness ==
    /\ dry_run
    /\ prog = "lambda"
    /\ pc = "done"
    /\ volume_results.deleted # <<>>
    /\ eip_results.released # <<>>

\* A finished dry run of ResourceCleanup that reported a snapshot, a volume
\* and an address.
C3_CleanupReached ==
    /\ dry_run
    /\ prog = "cleanup"
    /\ pc = "done"
    /\ cleanup_report.snapshots_deleted # <<>>
    /\ cleanup_report.volumes_deleted # <<>>
    /\ cleanup_report.eips_released # <<>>

\* C4: a dry run of lambda_handler issues no mutating external call at all
\* (no create_snapshot, delete_volume, release_address or create_tags).
C4_DryRunNoMutatingCall ==
    (prog = "lambda" /\ dry_run) => calls = <<>>

\* Whether the candidate was reclaimed (its call returned) or simulated.
ReclaimedOrSimulated(op, id, handled) ==
    IF dry_run THEN handled ELSE IssuedOk(op, id)

\* C5: every reported total is the sum of the savings of exactly the
\* candidates that were reclaimed (live, the call succeeded) or simulated
\* (dry run): delete_unattached_volumes, release_orphaned_eips and
\* ResourceCleanup.run_cleanup.
C5_TotalIsSumOfReclaimed ==
    /\ prog = "lambda" =>
        /\ volume_results.total_savings =
             SumSeq([k \in 1..Len(unattached_volumes) |->
                IF ReclaimedOrSimulated("delete_volume",
                       unattached_volumes[k].VolumeId,
                       k <= Handled("delete_volumes", unattached_volumes))
                THEN unattached_volumes[k].MonthlyCost ELSE 0])
        /\ eip_results.total_savings =
             SumSeq([k \in 1..Len(orphaned_eips) |->
                IF ReclaimedOrSimulated("release_address",
                       orphaned_eips[k].AllocationId,
                       k <= Handled("release_eips", orphaned_eips))
                THEN orphaned_eips[k].MonthlyCost ELSE 0])
    /\ (prog = "cleanup" /\ pc = "done") =>
        cleanup_report.total_savings =
             SumSeq([k \in 1..Len(old_snapshots) |->
                IF ReclaimedOrSimulated("delete_snapshot",
                                        old_snapshots[k].Id, TRUE)
                THEN old_snapshots[k].Attrs.VolumeSize * SnapshotCentsPerGB
                ELSE 0])
           + SumSeq([k \in 1..Len(orphaned_eips) |->
                IF ReclaimedOrSimulated("release_address",
                                        orphaned_eips[k].Id, TRUE)
                THEN EipCentsPerMonth ELSE 0])

\* C5, for the Lambda alone.
C5_LambdaTotalIsSumOfReclaimed ==
    prog = "lambda" => C5_TotalIsSumOfReclaimed

\* C6: a failing snapshot, delete or release call of one candidate does not
\* abort the batch; the candidate is recorded as failed with the reason (and
\* not as reclaimed), and the run ends with every candidate resolved.
C6_FailureIsolation ==
    /\ \A k \in CallIndices :
         calls[k].res # "ok" =>
            LET id == calls[k].id
                op == calls[k].op
            IN /\ pc # "crashed"
               /\ (prog = "lambda" /\ op \in {"create_snapshot", "delete_volume"})
                    => /\ [VolumeId |-> id, Error |-> calls[k].res]
                            \in Range(volume_results.failed)
                       /\ id \notin Range(volume_results.deleted)
               /\ (prog = "lambda" /\ op = "release_address")
                    => /\ [PublicIp |-> id, Error |-> calls[k].res]
                            \in Range(eip_results.failed)
                       /\ id \notin Range(eip_results.released)
               /\ (prog = "cleanup" /\ op = "delete_volume")
                    => id \notin CleanupVolumeIds
    /\ pc = "done" =>
         /\ prog = "lambda" =>
              /\ \A k \in 1..Len(unattached_volumes) :
                    unattached_volumes[k].VolumeId
                        \in Range(volume_results.deleted) \cup FailedVolumeIds
              /\ \A k \in 1..Len(orphaned_eips) :
                    orphaned_eips[k].PublicIp
                        \in Range(eip_results.released) \cup FailedEipIps
         /\ prog = "cleanup" =>
              \A k \in 1..Len(volumes) :
                    volumes[k].Id \in CleanupVolumeIds
                    \/ Issued("delete_volume", volumes[k].Id)

\* C6, for the Lambda alone.
C6_LambdaFailureIsolation ==
    prog = "lambda" => C6_FailureIsolation

\* C7: a delete or release call answered 'resource not found' does not put
\* the candidate in the failed list.
C7_NotFoundIsNotFailed ==
    prog = "lambda" =>
        \A k \in CallIndices :
            calls[k].res = "NotFound" =>
                /\ calls[k].op = "delete_volume" =>
                        calls[k].id \notin FailedVolumeIds
                /\ calls[k].op = "release_address" =>
                        calls[k].id \notin FailedEipIps

RECURSIVE LiveAllOkVolumes(_, _)
\* delete_unattached_volumes over the candidates in live mode, every call
\* succeeding.
LiveAllOkVolumes(results, candidates) ==
    IF candidates = <<>> THEN results
    ELSE LiveAllOkVolumes(
            LiveDeleteVolume(results, Head(candidates), "ok", "ok").results,
            Tail(candidates))

RECURSIVE LiveAllOkEips(_, _)
\* release_orphaned_eips over the candidates in live mode, every call
\* succeeding.
LiveAllOkEips(results, candidates) ==
    IF candidates = <<>> THEN results
    ELSE LiveAllOkEips(
            ReleaseEip(results, Head(candidates), FALSE, "ok").results,
            Tail(candidates))

AllCallsOk == \A k \in CallIndices : calls[k].res = "ok"

\* C8: over N eligible candidates a dry run yields N entries in
\* 'deleted'/'released', none in 'failed', and the total_savings of the live
\* run over the same candidates in which every call succeeds.
C8_DryRunEqualsLiveAllOk ==
    (prog = "lambda" /\ pc = "done" /\ (dry_run \/ AllCallsOk)) =>
        /\ Len(volume_results.deleted) = Len(unattached_volumes)
        /\ volume_results.failed = <<>>
        /\ volume_results.total_savings =
             LiveAllOkVolumes(EmptyVolumeResults,
                              unattached_volumes).total_savings
        /\ Len(eip_results.released) = Len(orphaned_eips)
        /\ eip_results.failed = <<>>
        /\ eip_results.total_savings =
             LiveAllOkEips(EmptyEipResults, orphaned_eips).total_savings

\* A finished dry run over two volumes of different sizes and an address.
C8_Witness ==
    /\ prog = "lambda"
    /\ dry_run
    /\ pc = "done"
    /\ Len(unattached_volumes) = 2
    /\ unattached_volumes[1].Size # unattached_volumes[2].Size
    /\ Len(orphaned_eips) = 1

\* A finished live run over the same kind of batch, every call succeeding.
C8_LiveReached ==
    /\ prog = "lambda"
    /\ ~dry_run
    /\ pc = "done"
    /\ AllCallsOk
    /\ Len(unattached_volumes) = 2
    /\ unattached_volumes[1].Size # unattached_volumes[2].Size
    /\ Len(orphaned_eips) = 1

\* The clock reading volume k of the listing is judged by: the Lambda reads
\* the clock for every volume, in listing order, before any other reading;
\* ResourceCleanup reads it once in a run, for the snapshots.
EvaluatedAt(k) == IF prog = "lambda" THEN now[k] ELSE now[Len(now)]

\* C9: a listed volume is a candidate iff its age in whole days is at least
\* 7, that is iff it was created at least 7 * 24 hours ago, and a candidate's
\* monthly cost is its size times 8 cents; a 100 GB volume of age 10 days is
\* a candidate costing 8.00, a volume of age 5 days is none.
C9_EligibleIffOldEnough ==
    (prog = "lambda" /\ pc # "find_volumes") =>
        /\ \A k \in 1..Len(volumes) :
             LET hours == EvaluatedAt(k) - volumes[k].Attrs.CreateTime
                 listed == \E c \in Range(unattached_volumes) :
                              c.VolumeId = volumes[k].Id
             IN /\ listed <=> hours >= 7 * 24
                /\ (hours = 10 * 24 /\ volumes[k].Attrs.Size = 100) =>
                      \E c \in Range(unattached_volumes) :
                          /\ c.VolumeId = volumes[k].Id
                          /\ c.AgeDays = 10
                          /\ c.MonthlyCost = 800
                /\ hours = 5 * 24 => ~listed
        /\ \A c \in Range(unattached_volumes) :
             /\ c.MonthlyCost = c.Size * 8
             /\ c.Size = volumes[c.VolumeId].Attrs.Size
             /\ c.AgeDays * 24 <= EvaluatedAt(c.VolumeId)
                                     - volumes[c.VolumeId].Attrs.CreateTime
             /\ EvaluatedAt(c.VolumeId) - volumes[c.VolumeId].Attrs.CreateTime
                   < (c.AgeDays + 1) * 24

\* A listing with a 100 GB volume of age 10 days, one of age exactly 7 days
\* and one of age 5 days, after find_unattached_volumes.
C9_Witness ==
    /\ prog = "lambda"
    /\ pc = "delete_volumes"
    /\ Len(unattached_volumes) = 2
    /\ \E a, b, c \in 1..Len(volumes) :
         /\ EvaluatedAt(a) - volumes[a].Attrs.CreateTime = 10 * 24
         /\ volumes[a].Attrs.Size = 100
         /\ EvaluatedAt(b) - volumes[b].Attrs.CreateTime = 7 * 24
         /\ EvaluatedAt(c) - volumes[c].Attrs.CreateTime = 5 * 24

\* C10: a volume younger than the minimum age is never snapshotted or
\* deleted and appears in no result list, in dry-run and live mode alike.
C10_NotEligibleIsOmitted ==
    \A k \in 1..Len(volumes) :
        EvaluatedAt(k) - volumes[k].Attrs.CreateTime
              < MIN_DAYS_BEFORE_DELETE * HoursPerDay =>
            LET id == volumes[k].Id
            IN /\ ~Issued("create_snapshot", id)
               /\ ~Issued("delete_volume", id)
               /\ id \notin Range(volume_results.deleted)
               /\ id \notin FailedVolumeIds
               /\ id \notin CleanupVolumeIds

\* C10, for the Lambda alone.
C10_LambdaNotEligibleIsOmitted ==
    prog = "lambda" => C10_NotEligibleIsOmitted
\* ----------------------------------------------- claims C11 to C20

IsCostAnomalyCall == call.fn = "detect_cost_anomalies"
AnomalyDates == {result[k].date : k \in 1..Len(result)}

\* C11: for each consecutive pair an anomaly is emitted iff |pct| >= the
\* medium threshold, with severity High iff |pct| >= the high threshold (50),
\* else Medium.
C11_AnomalyIffAtLeastThreshold ==
    IsCostAnomalyCall =>
        \A k \in 2..Len(call.results) :
            LET previous == call.results[k - 1]
                current == call.results[k]
                change == Abs(current - previous) * 100
            IN previous # 0 =>
                /\ k \in AnomalyDates
                     <=> change >= call.threshold_percentage * Abs(previous)
                /\ \A a \in Range(result) :
                     a.date = k =>
                        (a.severity = "HIGH" <=> change >= 50 * Abs(previous))

\* What detect_cost_anomalies does instead: an anomaly iff |pct| > threshold,
\* High iff |pct| > 50; [100, 100, 160] gives one High anomaly at the third
\* point and [100, 105] none.
AnomalyIffAboveThreshold ==
    IsCostAnomalyCall =>
        /\ \A k \in 2..Len(call.results) :
            LET previous == call.results[k - 1]
                current == call.results[k]
                change == Abs(current - previous) * 100
            IN previous # 0 =>
                /\ k \in AnomalyDates
                     <=> change > call.threshold_percentage * Abs(previous)
                /\ \A a \in Range(result) :
                     a.date = k =>
                        (a.severity = "HIGH" <=> change > 50 * Abs(previous))
        /\ (call.results = <<100, 100, 160>> /\ call.threshold_percentage = 20)
              => /\ Len(result) = 1
                 /\ result[1].date = 3
                 /\ result[1].severity = "HIGH"
        /\ call.results = <<100, 105>> => result = <<>>

\* C12: the first observation is never flagged; an anomaly is always measured
\* against the immediately preceding observation, whether that one was
\* flagged or not; n observations give at most n - 1 anomalies.
C12_BaselineIsPredecessor ==
    IsCostAnomalyCall =>
        LET n == Len(call.results)
        IN /\ 1 \notin AnomalyDates
           /\ n >= 1 => Len(result) <= n - 1
           /\ n = 0 => result = <<>>
           /\ \A j \in 1..Len(result) :
                /\ result[j].date \in 2..n
                /\ result[j].current_cost = call.results[result[j].date]
                /\ result[j].previous_cost = call.results[result[j].date - 1]
                /\ j > 1 => result[j - 1].date < result[j].date
           /\ \A k \in 2..n :
                call.results[k - 1] # 0 =>
                    (k \in AnomalyDates <=>
                        ChangeExceeds(call.results[k], call.results[k - 1],
                                      call.threshold_percentage))

\* A series whose second and third observations are both flagged, the third
\* against the flagged second.
C12_Witness ==
    /\ IsCostAnomalyCall
    /\ call.results = <<100, 160, 100>>
    /\ call.threshold_percentage = 20
    /\ Len(result) = 2
\* C14: a percentage is 0 when its denominator is zero (untagged share of a
\* zero total cost, actual and forecast share of a zero budget limit); for a
\* positive denominator it is numerator / denominator * 100 (the untagged
\* share rounded to two decimals).
C14_PercentageZeroOnZeroDenominator ==
    /\ call.fn = "untagged_percentage" =>
         /\ call.total_cost = 0 => result = 0
         /\ call.total_cost > 0 =>
              2 * Abs(result * call.total_cost - call.untagged_total * 10000)
                  <= call.total_cost
    /\ call.fn = "check_budget" =>
         /\ call.budget_limit = 0 =>
              /\ result.actual_percentage = 0
              /\ result.forecast_percentage = 0
         /\ call.budget_limit > 0 =>
              /\ result.actual_percentage * call.budget_limit
                    = call.actual_spend * 100
              /\ result.forecast_percentage * call.budget_limit
                    = call.forecasted_spend * 100

\* A budget without a limit but with spend, reported at 0 percent.
C14_Witness ==
    /\ call.fn = "check_budget"
    /\ call.budget_limit = 0
    /\ call.actual_spend > 0
    /\ call.forecasted_spend > 0
    /\ result.actual_percentage = 0
    /\ result.forecast_percentage = 0

\* An untagged share of a zero total cost, reported as 0.
C14_UntaggedZeroReached ==
    /\ call.fn = "untagged_percentage"
    /\ call.total_cost = 0
    /\ call.untagged_total > 0
    /\ result = 0
NoData == call.query_fails \/ call.datapoints = <<>>

\* C15: an instance whose utilisation query returned no datapoints, or
\* failed, gets no DOWNSIZE and no UPSIZE recommendation and no
\* 'underutilized' entry.
C15_NoDataNoRecommendation ==
    /\ (call.fn = "analyze_ec2_instance" /\ NoData)
          => result.action \notin {"DOWNSIZE", "UPSIZE"}
    /\ (call.fn = "analyze_ec2_utilization" /\ NoData)
          => ~result.underutilized

\* C15 for analyze_ec2_utilization of cost-optimizer.py alone.
C15_LambdaNoDataNotUnderutilized ==
    (call.fn = "analyze_ec2_utilization" /\ NoData) => ~result.underutilized

\* C16: DOWNSIZE iff avg < 10 and p95 < 20; otherwise UPSIZE iff avg > 80 or
\* p95 > 90; otherwise no recommendation; never both; a DOWNSIZE has priority
\* HIGH iff avg < 5, else MEDIUM.
C16_RecommendationClassification ==
    call.fn = "generate_ec2_recommendation" =>
        LET low == call.cpu_avg < 10 /\ call.cpu_p95 < 20
            high == call.cpu_avg > 80 \/ call.cpu_p95 > 90
        IN /\ result.action \in {"DOWNSIZE", "UPSIZE", "None"}
           /\ result.action = "DOWNSIZE" <=> low
           /\ result.action = "UPSIZE" <=> (~low /\ high)
           /\ result.action = "None" <=> (~low /\ ~high)
           /\ result.action = "DOWNSIZE" =>
                result.priority = IF call.cpu_avg < 5 THEN "HIGH" ELSE "MEDIUM"

\* An average of exactly 10 with a low p95: no recommendation.
C16_Witness ==
    /\ call.fn = "generate_ec2_recommendation"
    /\ call.cpu_avg = 10
    /\ call.cpu_p95 = 19
    /\ result.action = "None"

\* A DOWNSIZE of priority MEDIUM at an average of exactly 5.
C16_MediumReached ==
    /\ call.fn = "generate_ec2_recommendation"
    /\ call.cpu_avg = 5
    /\ result.action = "DOWNSIZE"
    /\ result.priority = "MEDIUM"
\* C17: evaluating the same volume (same creation time and size) under the
\* same policy twice gives the same decision, whatever the wall clock reads
\* at the moment of each call.
Decision(found) ==
    [eligible |-> found # <<>>,
     estimated_cost |-> IF found # <<>> THEN found[1].MonthlyCost ELSE 0]

C17_SameVolumeSameDecision ==
    call.fn = "find_unattached_volumes"
        => Decision(result[1]) = Decision(result[2])
PortScansReturned == findings[1] # <<>>
ExfiltrationReturned == findings[2] # <<>>

\* C13: a source address is flagged for port scanning iff the number of
\* distinct destination ports it was rejected on is greater than 20 (25 is
\* flagged, 15 and exactly 20 are not), and for exfiltration iff its accepted
\* bytes sum to more than threshold_gb * 1024^3.
C13_FlaggedIffAboveThreshold ==
    /\ PortScansReturned =>
         \A src \in DOMAIN traffic :
            (\E row \in findings[1][1] : row.srcAddr = src)
               <=> traffic[src].reject_ports > 20
    /\ ExfiltrationReturned =>
         \A src \in DOMAIN traffic :
            (\E row \in findings[2][1] : row.srcAddr = src)
               <=> traffic[src].accept_flows * AcceptMiB
                      > ThresholdGb * MiBPerGiB

\* A finished report on a source with 25 rejected ports and exactly 10 GiB
\* accepted and a source with exactly 20 rejected ports, each in the log
\* twice, and 15 GiB accepted.
C13_Witness ==
    /\ step = "done"
    /\ Len(traffic) = 2
    /\ traffic[1] = [reject_ports |-> 25, twice |-> TRUE, accept_flows |-> 2]
    /\ traffic[2] = [reject_ports |-> 20, twice |-> TRUE, accept_flows |-> 3]
    /\ findings[1][1] = {[srcAddr |-> 1, unique_ports |-> 25]}
    /\ findings[2][1] = {[srcAddr |-> 2, total_bytes |-> 3 * AcceptMiB]}
    /\ flow_report.port_scans = 1
    /\ flow_report.data_exfiltration = 1

\* C18: every run of generate_report ends, whatever CloudWatch Logs does
\* with its queries: a query that does not become Complete is given up after
\* a timeout and the remaining detectors still run.
C18_EveryQueryTerminates == <>(step \in {"done", "crashed"})
\* C19: a listing that raises aborts only its own kind's portion of the run:
\* the run goes on to the other kinds and is not ended by the exception.
C19_ListingFailureAbortsOnlyItsKind ==
    list_errors # {} => pc # "crashed"

\* C19 for lambda_handler alone.
C19_LambdaListingFailureAbortsOnlyItsKind ==
    (prog = "lambda" /\ list_errors # {}) => pc # "crashed"

\* A Lambda run whose listing of volumes raised and that released an address
\* and returned.
C19_LambdaReached ==
    /\ prog = "lambda"
    /\ list_errors = {"describe_volumes"}
    /\ pc = "done"
    /\ Len(eip_results.released) > 0
    /\ response.eips_released > 0

\* C20: a run in which a listing failed does not return the result of a
\* successful run (statusCode 200, 'completed successfully').
C20_FailedListingMarkedIncomplete ==
    (prog = "lambda" /\ pc = "done" /\ list_errors # {})
        => response.statusCode # 200
\* ----------------------------------------------- claims C21 to C30

\* C27: detect_cost_anomalies never divides by zero: a day that follows a
\* day of cost 0 is skipped and never flagged, whatever its cost, and the
\* baseline still advances to it, so the day after it is compared with it.
C27_ZeroBaselineIsSkipped ==
    IsCostAnomalyCall =>
        \A k \in 2..Len(call.results) :
            call.results[k - 1] = 0 =>
                /\ k \notin AnomalyDates
                /\ (k < Len(call.results) /\ call.results[k] # 0) =>
                     /\ (k + 1) \in AnomalyDates
                           <=> ChangeExceeds(call.results[k + 1],
                                             call.results[k],
                                             call.threshold_percentage)
                     /\ \A a \in Range(result) :
                           a.date = k + 1 => a.previous_cost = call.results[k]

\* A jump from 0 to 100 that is not flagged, followed by a jump from 100 to
\* 160 that is.
C27_Witness ==
    /\ IsCostAnomalyCall
    /\ call.results = <<0, 100, 160>>
    /\ call.threshold_percentage = 20
    /\ Len(result) = 1
    /\ result[1].date = 3
    /\ result[1].previous_cost = 100

\* The number of times x occurs in seq.
Count(seq, x) == Cardinality({j \in DOMAIN seq : seq[j] = x})

\* The part of C21 that the two Lambda notifiers satisfy: a raising
\* sns publish is logged, the notifier returns normally, and the budget
\* handler still alerts every budget that has a level and returns 200.
LambdaNotifierFailureIsLogged ==
    /\ (call.fn = "send_notification" /\ call.configured
           /\ call.publish_raises) =>
          /\ ~result.raised
          /\ result.logged = <<"Failed to send notification">>
    /\ (call.fn = "budget_lambda_handler" /\ call.described) =>
          /\ ~result.raised
          /\ result.statusCode = 200
          /\ \A k \in DOMAIN call.budgets_list :
                Alert(k, call.budgets_list[k]).alert_level # "None" =>
                    /\ Count(result.sns_publish, k) = 1
                    /\ k \in call.publish_fails =>
                          Count(result.printed, "Failed to send alert") >= 1

\* C21: a failure of the notification channel never fails the run: when the
\* publish, send or post call raises, the error is logged and the caller
\* still returns its normal result, for send_notification, for the budget
\* send_alert (whose remaining budgets are still alerted) and for the
\* monitoring send_alert.
C21_NotifierFailureNeverFailsRun ==
    /\ LambdaNotifierFailureIsLogged
    /\ call.fn \in {"detect_data_drift", "monitor_model_performance"} =>
          /\ ~result.raised
          /\ result.returned

\* Whether the live path handled the candidate: its first call was issued.
OnLivePath(op, id) == Issued(op, id)

\* The part of C22 that the Lambda satisfies: DRY_RUN decides the path of
\* every volume of delete_unattached_volumes and every address of
\* release_orphaned_eips.
LambdaModeAppliedToEveryCandidate ==
    prog = "lambda" =>
        /\ \A k \in 1..Handled("delete_volumes", unattached_volumes) :
              OnLivePath("create_snapshot", unattached_volumes[k].VolumeId)
                 <=> ~dry_run
        /\ \A k \in 1..Handled("release_eips", orphaned_eips) :
              OnLivePath("release_address", orphaned_eips[k].AllocationId)
                 <=> ~dry_run

\* C22: the execution mode is fixed for a run and applied to every candidate
\* of a delete or release batch: in a live run every handled candidate went
\* down the live path (its external call was issued) and none down the
\* dry-run path, and in a dry run none went down the live path.
C22_ModeAppliedToEveryCandidate ==
    /\ LambdaModeAppliedToEveryCandidate
    /\ prog = "cleanup" =>
        /\ \A k \in 1..Handled("rc_delete_snapshots", old_snapshots) :
              OnLivePath("delete_snapshot", old_snapshots[k].Id) <=> ~dry_run
        /\ \A k \in 1..Handled("rc_delete_volumes", volumes) :
              OnLivePath("delete_volume", volumes[k].Id) <=> ~dry_run
        /\ \A k \in 1..Handled("rc_release_eips", orphaned_eips) :
              OnLivePath("release_address", orphaned_eips[k].Id) <=> ~dry_run

\* How many times a call for the candidate raised the error.
TimesRaised(op, id, error) ==
    Cardinality({k \in CallIndices : calls[k] = Call(op, id, error)})

\* What the Lambda does instead of C23: each call of a candidate is issued
\* at most once in a run.
OneAttemptPerCandidate ==
    prog = "lambda" =>
        \A k \in CallIndices : TimesIssued(calls[k].op, calls[k].id) = 1

\* C23: a call that fails with a transient error (a throttling or a timeout,
\* one of the errors "Error" stands for) is retried for its candidate: the
\* candidate is recorded as failed with that error only after more than one
\* attempt has raised, in delete_unattached_volumes and in
\* release_orphaned_eips.
C23_TransientFailureIsRetried ==
    (prog = "lambda" /\ ~dry_run) =>
        /\ \A f \in Range(volume_results.failed) :
              f.Error = "Error" =>
                 \/ TimesRaised("create_snapshot", f.VolumeId, "Error") > 1
                 \/ TimesRaised("delete_volume", f.VolumeId, "Error") > 1
        /\ \A f \in Range(eip_results.failed) :
              f.Error = "Error" =>
                 TimesRaised("release_address", f.PublicIp, "Error") > 1

\* The position of a candidate id in the input of a batch.
Pos(ids, id) == CHOOSE k \in DOMAIN ids : ids[k] = id
\* The ids are ids of the input, each at most once, in the input's order.
InInputOrder(ids, input) ==
    /\ Range(ids) \subseteq Range(input)
    /\ \A a, b \in DOMAIN ids :
          a < b => Pos(input, ids[a]) < Pos(input, ids[b])
\* The first h candidates are split between the two lists: each is in
\* exactly one of them, once, and the lists keep the input's order.
Partitioned(success, failed, input, h) ==
    /\ Len(success) + Len(failed) = h
    /\ \A k \in 1..h : Count(success, input[k]) + Count(failed, input[k]) = 1
    /\ InInputOrder(success, input)
    /\ InInputOrder(failed, input)

\* C24: when delete_unattached_volumes or release_orphaned_eips has
\* returned (and at every pass before), every candidate handled is in
\* exactly one of the success list and 'failed', exactly once and in input
\* order, so the two lengths add up to the number of candidates, in a dry
\* run and in a live run.
C24_EveryCandidateInExactlyOneList ==
    prog = "lambda" =>
        /\ Partitioned(volume_results.deleted,
                       [k \in DOMAIN volume_results.failed |->
                            volume_results.failed[k].VolumeId],
                       [k \in DOMAIN unattached_volumes |->
                            unattached_volumes[k].VolumeId],
                       Handled("delete_volumes", unattached_volumes))
        /\ Partitioned(eip_results.released,
                       [k \in DOMAIN eip_results.failed |->
                            eip_results.failed[k].PublicIp],
                       [k \in DOMAIN orphaned_eips |->
                            orphaned_eips[k].PublicIp],
                       Handled("release_eips", orphaned_eips))

\* A live run that has returned with a volume deleted, a later volume
\* failed, and an address failed.
C24_Witness ==
    /\ prog = "lambda"
    /\ pc = "done"
    /\ ~dry_run
    /\ volume_results.deleted = <<1>>
    /\ Len(volume_results.failed) = 1
    /\ Len(eip_results.failed) = 1
    /\ eip_results.released = <<>>

\* C25: in a live run of ResourceCleanup an id is recorded in
\* snapshots_deleted, volumes_deleted or eips_released only if the delete or
\* release call for that resource was issued and returned without error.
C25_RecordedOnlyIfCallSucceeded ==
    (prog = "cleanup" /\ ~dry_run) =>
        /\ \A e \in Range(cleanup_report.snapshots_deleted) :
              IssuedOk("delete_snapshot", e.id)
        /\ \A e \in Range(cleanup_report.volumes_deleted) :
              IssuedOk("delete_volume", e.id)
        /\ \A e \in Range(cleanup_report.eips_released) :
              IssuedOk("release_address", e.ip)

\* C26: when describe_snapshots returns no snapshot at all,
\* cleanup_old_snapshots appends nothing and raises no error: run_cleanup
\* is not ended by it and goes on to the volumes and the addresses.
C26_NoSnapshotsIsNoError ==
    (/\ prog = "cleanup"
     /\ pc # "rc_snapshots"
     /\ "describe_snapshots" \notin list_errors
     /\ snapshots = <<>>) =>
        /\ cleanup_report.snapshots_deleted = <<>>
        /\ pc = "crashed" => list_errors # {}

\* The level the precedence CRITICAL, HIGH, MEDIUM, WARNING gives a budget,
\* stated on the spends: a budget without a positive limit has none.
LevelBySpend(budget_limit, actual_spend, forecasted_spend) ==
    IF budget_limit <= 0 THEN "None"
    ELSE IF actual_spend * 100 >= 100 * budget_limit THEN "CRITICAL"
    ELSE IF actual_spend * 100 >= 90 * budget_limit THEN "HIGH"
    ELSE IF actual_spend * 100 >= 80 * budget_limit THEN "MEDIUM"
    ELSE IF forecasted_spend * 100 >= 100 * budget_limit THEN "WARNING"
    ELSE "None"

\* C28: a budget gets at most one alert level, by strict precedence of
\* CRITICAL (actual >= 100%), HIGH (>= 90%), MEDIUM (>= 80%), WARNING
\* (forecast >= 100%); send_alert and publish_metric are each called exactly
\* once for a budget that has a level and never for one that has none;
\* alerts_triggered is the number of budgets with a level; a budget of limit
\* 0 never alerts.
C28_OneLevelOneAlert ==
    /\ call.fn = "check_budget" =>
          result.alert_level = LevelBySpend(call.budget_limit,
                                   call.actual_spend, call.forecasted_spend)
    /\ (call.fn = "budget_lambda_handler" /\ call.described) =>
          LET budgets_list == call.budgets_list
              level(k) == LevelBySpend(budgets_list[k].budget_limit,
                              budgets_list[k].actual_spend,
                              budgets_list[k].forecasted_spend)
              alerting == {k \in DOMAIN budgets_list : level(k) # "None"}
          IN /\ ~result.raised
             /\ result.statusCode = 200
             /\ result.alerts_triggered = Cardinality(alerting)
             /\ Len(result.alerts) = result.alerts_triggered
             /\ \A k \in DOMAIN budgets_list :
                   LET expected == IF k \in alerting THEN 1 ELSE 0
                   IN /\ Count(result.sns_publish, k) = expected
                      /\ Count(result.put_metric_data, k) = expected
                      /\ Cardinality({j \in DOMAIN result.alerts :
                             /\ result.alerts[j].budget_name = k
                             /\ result.alerts[j].alert_level = level(k)})
                           = expected
                      /\ budgets_list[k].budget_limit = 0 => expected = 0

\* A budget of limit 0 with spend, which does not alert, followed by a budget
\* at 90% with a forecast of 100%, which alerts HIGH once.
C28_Witness ==
    /\ call.fn = "budget_lambda_handler"
    /\ call.budgets_list =
          <<[budget_limit |-> 0, actual_spend |-> 100,
             forecasted_spend |-> 100],
            [budget_limit |-> 100, actual_spend |-> 90,
             forecasted_spend |-> 100]>>
    /\ result.alerts_triggered = 1
    /\ result.alerts[1].alert_level = "HIGH"
    /\ result.sns_publish = <<2>>
    /\ result.put_metric_data = <<2>>
\* The size ladder small < medium < large < xlarge < 2xlarge.
Ladder ==
    <<Size(FALSE, 0, "small"), Size(FALSE, 0, "medium"),
      Size(FALSE, 0, "large"), Size(FALSE, 1, "large"),
      Size(TRUE, 1, "large")>>
Rung(size) == CHOOSE k \in 1..Len(Ladder) : Ladder[k] = size

\* C29: on the ladder, suggest_larger_instance gives the next larger size and
\* suggest_smaller_instance the next smaller one, always a size of the
\* ladder; so suggest_smaller_instance undoes suggest_larger_instance on
\* small, medium, large and xlarge.
C29_SuggestNextOnLadder ==
    (call.fn = "suggest_instance" /\ call.size \in Range(Ladder)) =>
        /\ result.larger \in Range(Ladder)
        /\ result.smaller \in Range(Ladder)
        /\ Rung(call.size) < Len(Ladder) =>
              /\ result.larger = Ladder[Rung(call.size) + 1]
              /\ result.smaller_of_larger = call.size
        /\ Rung(call.size) > 1 =>
              result.smaller = Ladder[Rung(call.size) - 1]

\* The part of C29 that suggest_smaller_instance alone satisfies.
SuggestSmallerOnLadder ==
    (call.fn = "suggest_instance" /\ call.size \in Range(Ladder)) =>
        /\ result.smaller \in Range(Ladder)
        /\ Rung(call.size) > 1 =>
              result.smaller = Ladder[Rung(call.size) - 1]
\* C30: for a non-empty list of n datapoints the p95 index int(n * 0.95) is
\* in 0..n-1, and the p95 returned is one of the values, between the least
\* and the greatest.
C30_P95IsAValue ==
    call.fn = "get_metric_stats" =>
        LET values == call.datapoints
            n == Len(values)
        IN /\ P95Index(n) \in 0..(n - 1)
           /\ result.p95 \in Range(values)
           /\ \A v \in Range(values) : v <= result.max
           /\ \E v \in Range(values) : v <= result.p95
           /\ result.p95 <= result.max

\* Forty datapoints: the p95 is the 39th of the sorted values, below the
\* maximum.
C30_Witness ==
    /\ call.fn = "get_metric_stats"
    /\ Len(call.datapoints) = 40
    /\ P95Index(40) = 38
    /\ result.p95 < result.max
====
